---- MODULE Spec2Model ----
(***************************************************************************)
(* A model of datakit's columnar Table (src/src/table.rs) and of the       *)
(* contract engine that validates its cells (src/src/value/constraint.rs). *)
(*                                                                         *)
(* Encoding of the Rust data:                                              *)
(*   Value            [type, sub, pay]   pay is the payload flattened to a *)
(*                    sequence of integers (Text: its bytes), so that the  *)
(*                    derived PartialOrd is variant position first, then   *)
(*                    lexicographic order of pay                           *)
(*   Result<(), E>    [status |-> "Ok"] or [status |-> "Err", err |-> e]   *)
(*   a panic          [status |-> "Panic"]; the program stops there        *)
(*   HashMap<K, V>    a function whose DOMAIN is the set of keys           *)
(*   Vec index i      sequence index i + 1                                 *)
(***************************************************************************)
EXTENDS Integers, Sequences, FiniteSets, TLC

VARIABLES columns, column_contracts, col_length, row_length, result, par

vars == <<columns, column_contracts, col_length, row_length, result, par>>

table == <<columns, column_contracts, col_length, row_length>>

\* Bounds of the model.
MaxCols == 2
MaxRows == 2
MaxConstraints == 2

\* The largest usize.  The crate's targets have a 64-bit usize; the model
\* checker's integers stop at 2^31 - 1, which stands for it here: like 2^64 - 1
\* it is above every ordinal and every length a table can hold.
UsizeMax == 2147483647

-----------------------------------------------------------------------------
(* Values: src/src/value/definitions.rs, src/src/value/primitives/basic.rs *)

\* Position of each variant in `value_type_definition!`.
TypeIndex(t) ==
    CASE t = "Number" -> 0
      [] t = "Text" -> 1
      [] t = "DateTime" -> 2
      [] t = "Missing" -> 3
      [] t = "Boolean" -> 4
      [] t = "Composite" -> 5

\* Position of the inner variant: Numeric and Empty.
SubIndex(s) ==
    CASE s = "Integer" -> 0
      [] s = "Real" -> 1
      [] s = "Complex" -> 2
      [] s = "Unexpected" -> 0
      [] s = "Expected" -> 1
      [] s = "Date" -> 0
      [] s = "Time" -> 1
      [] s = "Full" -> 2
      [] s = "Array" -> 0
      [] s = "Object" -> 1
      [] OTHER -> 0

Integer(n) == [type |-> "Number", sub |-> "Integer", pay |-> <<n>>]
Text(bytes) == [type |-> "Text", sub |-> "String", pay |-> bytes]
Missing(e) == [type |-> "Missing", sub |-> e, pay |-> <<>>]
Boolean(b) == [type |-> "Boolean", sub |-> "bool", pay |-> <<IF b THEN 1 ELSE 0>>]

\* Numeric::Real and Numeric::Complex.  A float is held in tenths: Real(15)
\* is 1.5.
Real(t) == [type |-> "Number", sub |-> "Real", pay |-> <<t>>]
Complex(re, im) == [type |-> "Number", sub |-> "Complex", pay |-> <<re, im>>]

\* Date::YearMonthDay and Time, as the lists of their fields; a list starts
\* with the position of its variant where there is one (YearMonthDay is the
\* second Date, TimeZone::Utc the first TimeZone).
YearMonthDay(year, month, day) == <<1, year, month, day>>
TimeUtc(hour, minute, second, milli) == <<hour, minute, second, milli, 0, 0, 0>>

\* enum DateTime
DateOnly(date) == [type |-> "DateTime", sub |-> "Date", pay |-> date]
TimeOnly(time) == [type |-> "DateTime", sub |-> "Time", pay |-> time]
Full(date, time) == [type |-> "DateTime", sub |-> "Full", pay |-> date \o time]

\* enum Collection; `items` are the elements of an Array in order, for an
\* Object each name (a list of bytes) followed by its element.
Array(items) == [type |-> "Composite", sub |-> "Array", pay |-> items]
Object(items) == [type |-> "Composite", sub |-> "Object", pay |-> items]

get_value_type(v) == v.type

\* Lexicographic comparison of two payloads, as the derived PartialOrd of a
\* tuple, a String or a Vec compares them.
RECURSIVE PayCmp(_, _)
PayCmp(p, q) ==
    IF p = <<>> /\ q = <<>> THEN "Equal"
    ELSE IF p = <<>> THEN "Less"
    ELSE IF q = <<>> THEN "Greater"
    ELSE IF Head(p) < Head(q) THEN "Less"
    ELSE IF Head(p) > Head(q) THEN "Greater"
    ELSE PayCmp(Tail(p), Tail(q))

\* #[derive(PartialOrd)] on Value: variant position, then the payload.
ValueCmp(a, b) ==
    IF TypeIndex(a.type) < TypeIndex(b.type) THEN "Less"
    ELSE IF TypeIndex(a.type) > TypeIndex(b.type) THEN "Greater"
    ELSE IF SubIndex(a.sub) < SubIndex(b.sub) THEN "Less"
    ELSE IF SubIndex(a.sub) > SubIndex(b.sub) THEN "Greater"
    ELSE PayCmp(a.pay, b.pay)

\* An order that leaves out equality.
ValueLeStrict(a, b) == ValueCmp(a, b) = "Less"

ValueLe(a, b) == ValueCmp(a, b) \in {"Less", "Equal"}
ValueGe(a, b) == ValueCmp(a, b) \in {"Greater", "Equal"}

-----------------------------------------------------------------------------
(* Constraints and contracts: src/src/value/constraint.rs                  *)

AnyValue == [kind |-> "Any"]
Not(c) == [kind |-> "Not", inner |-> c]
OneOf(vs) == [kind |-> "OneOf", allowed |-> vs]
Maximum(v) == [kind |-> "Maximum", max |-> v]
Minimum(v) == [kind |-> "Minimum", min |-> v]
MaximumLength(n) == [kind |-> "MaximumLength", len |-> n]
MinimumLength(n) == [kind |-> "MinimumLength", len |-> n]

IsType(t) == [kind |-> "IsType", expected |-> t]

ValueContract(tc, vcs) == [expected_type |-> tc, value_constraints |-> vcs]

ValidOk == [ok |-> TRUE]
ValidErr(v, causes) ==
    [ok |-> FALSE, offending_value |-> v, failed_constraints |-> causes]

TypeError(e, r) == [kind |-> "TypeError", expected |-> e, received |-> r]
ValueError(c) == [kind |-> "ValueError", constraint |-> c]
InvalidConstraintError == [kind |-> "InvalidConstraintError"]

\* A macro that reports every failure as an inapplicable constraint.
ToInvalidConstraintErr(v, c) == ValidErr(v, <<InvalidConstraintError>>)

\* macro _to_valueconstraint_err
ToValueConstraintErr(v, c) == ValidErr(v, <<ValueError(c)>>)

\* impl ValidatesValues for TypeConstraint
ValidateType(tc, v) ==
    IF tc.expected = get_value_type(v) THEN ValidOk
    ELSE ValidErr(v, <<TypeError(tc.expected, get_value_type(v))>>)

\* A Not that hands on the failure of its inner constraint.
NotHandsOnFailure(inner, v, c) ==
    IF inner.ok THEN ToValueConstraintErr(v, c) ELSE inner

\* The arm ValueConstraint::Not: the match on the inner constraint's result.
NotOf(inner, v, c) ==
    IF inner.ok THEN ToValueConstraintErr(v, c) ELSE ValidOk

\* A length constraint that lets every value that is not a Text pass.
LengthOfNonTextPasses(v) == ValidOk

\* The arms (MaximumLength, _) and (MinimumLength, _): a value that is not
\* a Text.
LengthOfNonText(v) == ValidErr(v, <<InvalidConstraintError>>)

\* impl ValidatesValues for ValueConstraint
RECURSIVE ValidateConstraint(_, _)
ValidateConstraint(c, v) ==
    CASE c.kind = "Any" -> ValidOk
      [] c.kind = "Not" -> NotOf(ValidateConstraint(c.inner, v), v, c)
      [] c.kind = "OneOf" ->
            IF \E i \in 1..Len(c.allowed) : v = c.allowed[i]
            THEN ValidOk
            ELSE ToValueConstraintErr(v, c)
      [] c.kind = "Maximum" ->
            IF ValueLe(v, c.max) THEN ValidOk ELSE ToValueConstraintErr(v, c)
      [] c.kind = "Minimum" ->
            IF ValueGe(v, c.min) THEN ValidOk ELSE ToValueConstraintErr(v, c)
      [] c.kind = "MaximumLength" /\ v.type = "Text" ->
            IF Len(v.pay) <= c.len THEN ValidOk ELSE ToValueConstraintErr(v, c)
      [] c.kind = "MinimumLength" /\ v.type = "Text" ->
            IF Len(v.pay) >= c.len THEN ValidOk ELSE ToValueConstraintErr(v, c)
      [] c.kind = "MaximumLength" /\ v.type # "Text" -> LengthOfNonText(v)
      [] c.kind = "MinimumLength" /\ v.type # "Text" -> LengthOfNonText(v)

\* The loop of ValueContract::validate over value_constraints[1..n],
\* extending `errors` with the causes of each failing constraint.
RECURSIVE ConstraintCauses(_, _, _)
ConstraintCauses(vcs, v, errors) ==
    IF vcs = <<>> THEN errors
    ELSE LET r == ValidateConstraint(Head(vcs), v)
         IN  ConstraintCauses(Tail(vcs), v,
                 IF r.ok THEN errors ELSE errors \o r.failed_constraints)

\* A validate that returns the type error without looking any further.
ValidateContractTypeFirst(vc, v) ==
    LET tr == ValidateType(vc.expected_type, v)
        errors == ConstraintCauses(vc.value_constraints, v, <<>>)
    IN  IF ~tr.ok THEN tr
        ELSE IF errors # <<>> THEN ValidErr(v, errors)
        ELSE ValidOk

\* impl ValidatesValues for ValueContract
ValidateContract(vc, v) ==
    LET tr == ValidateType(vc.expected_type, v)
        e0 == IF tr.ok THEN <<>> ELSE tr.failed_constraints
        errors == ConstraintCauses(vc.value_constraints, v, e0)
        errors_found ==
            \/ ~tr.ok
            \/ \E i \in 1..Len(vc.value_constraints) :
                   ~ValidateConstraint(vc.value_constraints[i], v).ok
    IN  IF errors_found THEN ValidErr(v, errors) ELSE ValidOk

-----------------------------------------------------------------------------
(* Universes the inputs are drawn from                                     *)

Jim == Text(<<74, 105, 109>>)

\* Values that rows carry (tests/table_test.rs: "Jim", 2).
CellValues == {Jim, Integer(2)}

Names == {"a", "b"}

\* The two contracts of tests/table_test.rs.
TextContract == ValueContract(IsType("Text"), <<AnyValue>>)
NumberContract == ValueContract(IsType("Number"), <<Maximum(Integer(10))>>)
ValueContracts == {TextContract, NumberContract}

ColumnContract(n, vc) == [name |-> n, value_contract |-> vc]
ColumnContracts ==
    {ColumnContract("a", TextContract), ColumnContract("a", NumberContract),
     ColumnContract("b", NumberContract)}

SeqsUpTo(S, n) == UNION {[1..k -> S] : k \in 0..n}

-----------------------------------------------------------------------------
(* Table: src/src/table.rs                                                 *)

Ok == [status |-> "Ok"]
Err(e) == [status |-> "Err", err |-> e]
Panic == [status |-> "Panic"]

Some(x) == [some |-> TRUE, v |-> x]
None == [some |-> FALSE]

\* enum ColumnId
Ordinal(n) == [kind |-> "Ordinal", ord |-> n]
Name(s) == [kind |-> "Name", name |-> s]

\* enum TableError, enum ColumnError
DimensionError == [kind |-> "DimensionError"]
Unknown(id) == [kind |-> "Unknown", id |-> id]
AlreadyExists(o, n) == [kind |-> "AlreadyExists", ordinal |-> o, name |-> n]
ContainsInvalidValues(cc, errs) ==
    [kind |-> "ContainsInvalidValues", contract |-> cc, errors |-> errs]
InvalidData(m) == [kind |-> "InvalidData", map |-> m]

Min(S) == CHOOSE x \in S : \A y \in S : x <= y

\* usize subtraction in a build without overflow checks.
WrappingSub(a, b) == IF a >= b THEN a - b ELSE UsizeMax - (b - a) + 1

\* A removal that always takes the first element.
RemoveFirst(s, i) == Tail(s)

\* Vec::remove(i), i a 0-based index below the length.
RemoveAt(s, i) == SubSeq(s, 1, i) \o SubSeq(s, i + 2, Len(s))

\* Schema::from_tuples
SchemaFromTuples(tuples) ==
    [column_contracts |->
        [i \in 1..Len(tuples) |-> ColumnContract(tuples[i][1], tuples[i][2])]]

Schemas ==
    {SchemaFromTuples(t) :
        t \in SeqsUpTo({<<c.name, c.value_contract>> : c \in ColumnContracts},
                       MaxCols)}

\* A column_order that counts positions from 1.
ColumnOrderFromOne(ccs, col_name) ==
    LET S == {i \in 1..Len(ccs) : ccs[i].name = col_name}
    IN  IF S = {} THEN None ELSE Some(Min(S))

\* Table::column_order: the 0-based position of the first contract so named.
column_order(ccs, col_name) ==
    LET S == {i \in 1..Len(ccs) : ccs[i].name = col_name}
    IN  IF S = {} THEN None ELSE Some(Min(S) - 1)

\* Table::resolve_column_id
resolve_column_id(ccs, col_id) ==
    IF col_id.kind = "Name"
    THEN LET o == column_order(ccs, col_id.name)
         IN  IF o.some THEN [ok |-> TRUE, v |-> o.v]
             ELSE [ok |-> FALSE, err |-> Unknown(col_id)]
    ELSE [ok |-> TRUE, v |-> col_id.ord]

\* Calls are explored one after another from the states that construction and
\* successful mutations produce.  A call that leaves the table as it was (a
\* query, a validation, a rejected mutation) or that panics is explored as the
\* last call of a behaviour: the table after it is the table before it, so
\* every call that could follow it is explored from the state before it.
\* A cell transformation (map_column, map_column_if) is explored as the last
\* call as well: it turns cells into values that rows carry, so the tables it
\* leaves are tables that add_row builds.
Mutations == {"from_schema", "add_row", "add_empty_column", "remove_column",
              "alter_column"}
Running == result.status = "Ok" /\ result.op \in Mutations

\* No parallel validation is under way.
ParIdle == [active |-> FALSE, pending |-> {}, results |-> [o \in {} |-> Ok]]

\* Table::new, Table::from_schema
Init ==
    /\ \E schema \in Schemas :
          /\ column_contracts = schema.column_contracts
          /\ col_length = Len(schema.column_contracts)
          /\ columns = [i \in 1..Len(schema.column_contracts) |-> <<>>]
    /\ row_length = 0
    /\ result = [op |-> "from_schema"] @@ Ok
    /\ par = ParIdle

\* add_empty_column forgetting the column counter.
AddEmptyColumnKeepsColLength(col_contract) ==
    /\ Running
    /\ LET o == column_order(column_contracts, col_contract.name)
           op == [op |-> "add_empty_column", contract |-> col_contract]
       IN  IF o.some
           THEN /\ result' = op @@ Err(AlreadyExists(o.v, col_contract.name))
                /\ UNCHANGED table
           ELSE /\ Len(column_contracts) < MaxCols
                /\ column_contracts' = Append(column_contracts, col_contract)
                /\ columns' = Append(columns, <<>>)
                /\ result' = op @@ Ok
                /\ UNCHANGED <<col_length, row_length>>
    /\ UNCHANGED par

\* Table::add_empty_column
AddEmptyColumn(col_contract) ==
    /\ Running
    /\ LET o == column_order(column_contracts, col_contract.name)
           op == [op |-> "add_empty_column", contract |-> col_contract]
       IN  IF o.some
           THEN /\ result' = op @@ Err(AlreadyExists(o.v, col_contract.name))
                /\ UNCHANGED table
           ELSE /\ Len(column_contracts) < MaxCols
                /\ column_contracts' = Append(column_contracts, col_contract)
                /\ columns' = Append(columns, <<>>)
                /\ col_length' = col_length + 1
                /\ result' = op @@ Ok
                /\ UNCHANGED row_length
    /\ UNCHANGED par

\* Table::remove_column.  Vec::remove panics on an index that is not below
\* the length; `col_length -= 1` at 0 panics where overflow is checked and
\* wraps where it is not.
RemoveColumn(col_id, overflow_checks) ==
    /\ Running
    /\ LET r == resolve_column_id(column_contracts, col_id)
           op == [op |-> "remove_column", id |-> col_id]
       IN  IF ~r.ok
           THEN /\ result' = op @@ Err(r.err)
                /\ UNCHANGED table
           ELSE IF r.v >= Len(column_contracts)
           THEN /\ result' = op @@ Panic
                /\ UNCHANGED table
           ELSE IF r.v >= Len(columns)
           THEN /\ column_contracts' = RemoveAt(column_contracts, r.v)
                /\ result' = op @@ Panic
                /\ UNCHANGED <<columns, col_length, row_length>>
           ELSE IF col_length = 0 /\ overflow_checks
           THEN /\ column_contracts' = RemoveAt(column_contracts, r.v)
                /\ columns' = RemoveAt(columns, r.v)
                /\ result' = op @@ Panic
                /\ UNCHANGED <<col_length, row_length>>
           ELSE /\ column_contracts' = RemoveAt(column_contracts, r.v)
                /\ columns' = RemoveAt(columns, r.v)
                /\ col_length' = WrappingSub(col_length, 1)
                /\ result' = op @@ Ok
                /\ UNCHANGED row_length
    /\ UNCHANGED par

\* add_row comparing the row's arity with the wrong counter.
AddRowChecksRowLength(row) ==
    /\ Running
    /\ row_length < MaxRows
    /\ LET op == [op |-> "add_row", row |-> row]
       IN  IF Len(row) # row_length
           THEN /\ result' = op @@ Err(DimensionError)
                /\ UNCHANGED table
           ELSE /\ columns' = [i \in 1..Len(columns) |->
                                  IF i <= Len(row) THEN Append(columns[i], row[i])
                                  ELSE columns[i]]
                /\ row_length' = row_length + 1
                /\ result' = op @@ Ok
                /\ UNCHANGED <<column_contracts, col_length>>
    /\ UNCHANGED par

\* Table::add_row.  The loop pushes row[i] onto columns[i] in turn and panics
\* at the first i that is no column.
AddRow(row) ==
    /\ Running
    /\ row_length < MaxRows
    /\ LET op == [op |-> "add_row", row |-> row]
       IN  IF Len(row) # col_length
           THEN /\ result' = op @@ Err(DimensionError)
                /\ UNCHANGED table
           ELSE IF Len(row) > Len(columns)
           THEN /\ columns' = [i \in 1..Len(columns) |->
                                  Append(columns[i], row[i])]
                /\ result' = op @@ Panic
                /\ UNCHANGED <<column_contracts, col_length, row_length>>
           ELSE /\ columns' = [i \in 1..Len(columns) |->
                                  IF i <= Len(row) THEN Append(columns[i], row[i])
                                  ELSE columns[i]]
                /\ row_length' = row_length + 1
                /\ result' = op @@ Ok
                /\ UNCHANGED <<column_contracts, col_length>>
    /\ UNCHANGED par

\* Table::column
Column(col_id) ==
    /\ Running
    /\ LET r == resolve_column_id(column_contracts, col_id)
           op == [op |-> "column", id |-> col_id]
       IN  result' = IF ~r.ok THEN op @@ Err(r.err)
                     ELSE IF r.v >= Len(columns) THEN op @@ Panic
                     ELSE op @@ Ok @@ [value |-> columns[r.v + 1]]
    /\ UNCHANGED <<table, par>>

\* Table::column_contract
GetColumnContract(col_id) ==
    /\ Running
    /\ LET r == resolve_column_id(column_contracts, col_id)
           op == [op |-> "column_contract", id |-> col_id]
       IN  result' = IF ~r.ok THEN op @@ Err(r.err)
                     ELSE IF r.v >= Len(column_contracts) THEN op @@ Panic
                     ELSE op @@ Ok @@ [value |-> column_contracts[r.v + 1]]
    /\ UNCHANGED <<table, par>>

\* Table::alter_column
AlterColumn(col_id, col_contract) ==
    /\ Running
    /\ LET r == resolve_column_id(column_contracts, col_id)
           op == [op |-> "alter_column", id |-> col_id,
                  contract |-> col_contract]
       IN  IF ~r.ok
           THEN /\ result' = op @@ Err(r.err)
                /\ UNCHANGED table
           ELSE IF r.v >= Len(column_contracts)
           THEN /\ result' = op @@ Panic
                /\ UNCHANGED table
           ELSE /\ column_contracts' =
                       [column_contracts EXCEPT ![r.v + 1] = col_contract]
                /\ result' = op @@ Ok
                /\ UNCHANGED <<columns, col_length, row_length>>
    /\ UNCHANGED par

\* HashMap::new, HashMap::insert (an insert under a present key replaces).
EmptyMap == [k \in {} |-> <<>>]
Insert(m, k, v) == [x \in (DOMAIN m) \cup {k} |-> IF x = k THEN v ELSE m[x]]

\* A column loop that counts the rows from 1.
RECURSIVE ColumnErrorsFromOne(_, _, _)
ColumnErrorsFromOne(column, value_contract, rowno) ==
    IF rowno >= Len(column) THEN <<>>
    ELSE LET r == ValidateContract(value_contract, column[rowno + 1])
         IN  (IF r.ok THEN <<>> ELSE << <<rowno + 1, r>> >>)
                 \o ColumnErrorsFromOne(column, value_contract, rowno + 1)

\* The loop `for (rowno, value) in column.iter().enumerate()` of
\* validate_column_against_contract: the (rowno, error) pairs of the cells
\* that fail, in row order.
RECURSIVE ColumnErrors(_, _, _)
ColumnErrors(column, value_contract, rowno) ==
    IF rowno >= Len(column) THEN <<>>
    ELSE LET r == ValidateContract(value_contract, column[rowno + 1])
         IN  (IF r.ok THEN <<>> ELSE << <<rowno, r>> >>)
                 \o ColumnErrors(column, value_contract, rowno + 1)

\* A column validation that stops at the first failing cell.
ValidateColumnUpToFirstError(cols, ccs, col_id, column_contract) ==
    LET r == resolve_column_id(ccs, col_id)
    IN  IF ~r.ok THEN Err(r.err)
        ELSE IF r.v >= Len(cols) THEN Panic
        ELSE LET errs == ColumnErrors(cols[r.v + 1],
                                      column_contract.value_contract, 0)
             IN  IF Len(errs) = 0 THEN Ok
                 ELSE Err(ContainsInvalidValues(column_contract, <<errs[1]>>))

\* Table::validate_column_against_contract
validate_column_against_contract(cols, ccs, col_id, column_contract) ==
    LET r == resolve_column_id(ccs, col_id)
    IN  IF ~r.ok THEN Err(r.err)
        ELSE IF r.v >= Len(cols) THEN Panic
        ELSE LET errs == ColumnErrors(cols[r.v + 1],
                                      column_contract.value_contract, 0)
             IN  IF Len(errs) = 0 THEN Ok
                 ELSE Err(ContainsInvalidValues(column_contract, errs))

\* Table::validate_column
validate_column(cols, ccs, col_id) ==
    LET r == resolve_column_id(ccs, col_id)
    IN  IF ~r.ok THEN Err(r.err)
        ELSE IF r.v >= Len(ccs) THEN Panic
        ELSE validate_column_against_contract(cols, ccs, Ordinal(r.v),
                                              ccs[r.v + 1])

\* The loop of Table::validate_table_against_contracts from `ordinal` on,
\* `acc` being the map built so far.  `col_contracts.len() - 1` is a usize
\* subtraction: at length 0 it panics where overflow is checked and wraps
\* where it is not.
RECURSIVE ValidateLoop(_, _, _, _, _, _, _)
ValidateLoop(cols, ccs, col_contracts, strict, overflow_checks, ordinal, acc) ==
    IF ordinal >= Len(cols)
    THEN (IF DOMAIN acc = {} THEN Ok ELSE Err(InvalidData(acc)))
    ELSE IF Len(col_contracts) = 0 /\ overflow_checks THEN Panic
    ELSE LET last == WrappingSub(Len(col_contracts), 1)
         IN  IF ~strict /\ ordinal > last
             THEN (IF DOMAIN acc = {} THEN Ok ELSE Err(InvalidData(acc)))
             ELSE IF strict /\ ordinal > last
             THEN Err(Unknown(Ordinal(ordinal)))
             ELSE IF ordinal >= Len(col_contracts) THEN Panic
             ELSE LET r == validate_column_against_contract(
                               cols, ccs, Ordinal(ordinal),
                               col_contracts[ordinal + 1])
                  IN  IF r.status = "Panic" THEN Panic
                      ELSE IF r.status = "Err"
                              /\ r.err.kind = "ContainsInvalidValues"
                      THEN IF ordinal >= Len(ccs) THEN Panic
                           ELSE ValidateLoop(cols, ccs, col_contracts, strict,
                                    overflow_checks, ordinal + 1,
                                    Insert(acc, ccs[ordinal + 1].name,
                                           r.err.errors))
                      ELSE ValidateLoop(cols, ccs, col_contracts, strict,
                                        overflow_checks, ordinal + 1, acc)

\* Table::validate_table_against_contracts
validate_table_against_contracts(cols, ccs, col_contracts, strict, overflow_checks) ==
    ValidateLoop(cols, ccs, col_contracts, strict, overflow_checks, 0, EmptyMap)

\* Table::validate_table
validate_table(cols, ccs, overflow_checks) ==
    validate_table_against_contracts(cols, ccs, ccs, TRUE, overflow_checks)

\* A validation that keys its errors by the names in the schema.
ValidateKeyedBySchemaNames(cols, ccs, schema, strict, overflow_checks) ==
    validate_table_against_contracts(cols, schema.column_contracts,
                                     schema.column_contracts, strict,
                                     overflow_checks)

\* Table::validate_table_against_schema
validate_table_against_schema(cols, ccs, schema, strict, overflow_checks) ==
    validate_table_against_contracts(cols, ccs, schema.column_contracts,
                                     strict, overflow_checks)

ValidateColumn(col_id) ==
    /\ Running
    /\ result' = [op |-> "validate_column", id |-> col_id]
                    @@ validate_column(columns, column_contracts, col_id)
    /\ UNCHANGED <<table, par>>

ValidateColumnAgainstContract(col_id, column_contract) ==
    /\ Running
    /\ result' = [op |-> "validate_column_against_contract", id |-> col_id,
                  contract |-> column_contract]
                    @@ validate_column_against_contract(
                           columns, column_contracts, col_id, column_contract)
    /\ UNCHANGED <<table, par>>

ValidateTable(overflow_checks) ==
    /\ Running
    /\ result' = [op |-> "validate_table"]
                    @@ validate_table(columns, column_contracts, overflow_checks)
    /\ UNCHANGED <<table, par>>

ValidateTableAgainstSchema(schema, strict, overflow_checks) ==
    /\ Running
    /\ result' = [op |-> "validate_table_against_schema", schema |-> schema,
                  strict |-> strict]
                    @@ validate_table_against_schema(
                           columns, column_contracts, schema, strict,
                           overflow_checks)
    /\ UNCHANGED <<table, par>>

\* Table::validate_column_par.  The rows are validated by parallel tasks and
\* `collect()` into a Vec returns the pairs in the order of the rows whatever
\* order the tasks ran in.
validate_column_par(cols, ccs, col_id) ==
    LET r == resolve_column_id(ccs, col_id)
    IN  IF ~r.ok THEN Err(r.err)
        ELSE IF r.v >= Len(ccs) \/ r.v >= Len(cols) THEN Panic
        ELSE LET errs == ColumnErrors(cols[r.v + 1],
                                      ccs[r.v + 1].value_contract, 0)
             IN  IF errs = <<>> THEN Ok
                 ELSE Err(ContainsInvalidValues(ccs[r.v + 1], errs))

\* The `filter_map(..).collect()` of validate_table_par: the (contract, errors)
\* pairs of the column tasks that found errors, in the order of the ordinals
\* from `ordinal` on.
RECURSIVE CollectResults(_, _, _)
CollectResults(results, n, ordinal) ==
    IF ordinal >= n THEN <<>>
    ELSE (IF results[ordinal].status = "Err"
             /\ results[ordinal].err.kind = "ContainsInvalidValues"
          THEN << <<results[ordinal].err.contract,
                    results[ordinal].err.errors>> >>
          ELSE <<>>)
            \o CollectResults(results, n, ordinal + 1)

\* A merge that keeps the entry a name already has.
RECURSIVE MergeResultsKeepFirst(_, _)
MergeResultsKeepFirst(column_results, error_map) ==
    IF column_results = <<>> THEN error_map
    ELSE MergeResultsKeepFirst(
             Tail(column_results),
             IF Head(column_results)[1].name \in DOMAIN error_map
             THEN error_map
             ELSE Insert(error_map, Head(column_results)[1].name,
                         Head(column_results)[2]))

\* The loop `for (contract, errors) in column_results.iter()` of
\* validate_table_par, inserting into `error_map`.
RECURSIVE MergeResults(_, _)
MergeResults(column_results, error_map) ==
    IF column_results = <<>> THEN error_map
    ELSE MergeResults(Tail(column_results),
                      Insert(error_map, Head(column_results)[1].name,
                             Head(column_results)[2]))

\* Table::validate_table_par, forking: one task per column.  The table is
\* borrowed shared until the join, so no mutation runs in between.
ParStart ==
    /\ Running
    /\ ~par.active
    /\ par' = [active |-> TRUE, pending |-> 0..(Len(columns) - 1),
               results |-> [o \in {} |-> Ok]]
    /\ result' = [op |-> "validate_table_par", status |-> "Forked"]
    /\ UNCHANGED table

\* One column task of validate_table_par runs to its end; the tasks finish in
\* any order.  A panic in a task is propagated to the caller.
ParTask(ordinal) ==
    /\ par.active
    /\ ordinal \in par.pending
    /\ LET r == validate_column_par(columns, column_contracts, Ordinal(ordinal))
       IN  IF r.status = "Panic"
           THEN /\ result' = [op |-> "validate_table_par"] @@ Panic
                /\ par' = ParIdle
           ELSE /\ par' = [par EXCEPT
                             !.pending = @ \ {ordinal},
                             !.results = [o \in (DOMAIN @) \cup {ordinal} |->
                                             IF o = ordinal THEN r ELSE @[o]]]
                /\ UNCHANGED result
    /\ UNCHANGED table

\* validate_table_par after the join: collect and merge.
ParJoin ==
    /\ par.active
    /\ par.pending = {}
    /\ LET column_results == CollectResults(par.results, Len(columns), 0)
       IN  result' = [op |-> "validate_table_par"]
                       @@ (IF column_results = <<>> THEN Ok
                           ELSE Err(InvalidData(
                                    MergeResults(column_results, EmptyMap))))
    /\ par' = ParIdle
    /\ UNCHANGED table

\* enum SchemaError
MissingColumn(n) == [kind |-> "MissingColumn", name |-> n]
ConflictingConstraints(e, r) ==
    [kind |-> "ConflictingConstraints", expected |-> e, received |-> r]

\* struct SchemaValidationError
SchemaValidationError(errs) == [schema_errors |-> errs]

\* The inner loop of check_compatibility: the errors that `their_cc` adds,
\* looking through the table's contracts from position i on.  The first
\* contract of the name decides (`continue 'outer`).
RECURSIVE CompareWithOurs(_, _, _)
CompareWithOurs(their_cc, ccs, i) ==
    IF i > Len(ccs) THEN <<MissingColumn(their_cc.name)>>
    ELSE IF their_cc.name = ccs[i].name
    THEN (IF their_cc.value_contract # ccs[i].value_contract
          THEN <<ConflictingConstraints(their_cc, ccs[i])>>
          ELSE <<>>)
    ELSE CompareWithOurs(their_cc, ccs, i + 1)

\* The outer loop of check_compatibility over the schema's contracts.
RECURSIVE SchemaErrors(_, _)
SchemaErrors(theirs, ccs) ==
    IF theirs = <<>> THEN <<>>
    ELSE CompareWithOurs(Head(theirs), ccs, 1) \o SchemaErrors(Tail(theirs), ccs)

\* Table::check_compatibility
check_compatibility(ccs, schema) ==
    LET schema_errors == SchemaErrors(schema.column_contracts, ccs)
    IN  IF Len(schema_errors) > 0 THEN Err(SchemaValidationError(schema_errors))
        ELSE Ok

CheckCompatibility(schema) ==
    /\ Running
    /\ result' = [op |-> "check_compatibility", schema |-> schema]
                    @@ check_compatibility(column_contracts, schema)
    /\ UNCHANGED <<table, par>>

\* The closures handed to map_column and map_column_if: `func` exchanges
\* the two cell values, the predicates test the type of a value.
Funcs == {"exchange"}
Predicates == {"is_text", "is_number"}

\* func(old_value)
Apply(func, v) == IF v = Jim THEN Integer(2) ELSE Jim

\* predicate(other_col_value)
Holds(predicate, v) ==
    IF predicate = "is_text" THEN v.type = "Text" ELSE v.type = "Number"

\* The loop `for (other_col_id, predicate) in predicates` in row `rowno`.  A
\* predicate that is false reaches `continue`, which goes on with the next
\* predicate; the loop ends early only by `?` or by an index out of bounds.
RECURSIVE PredicateLoop(_, _, _, _)
PredicateLoop(cols, ccs, predicates, rowno) ==
    IF predicates = <<>> THEN Ok
    ELSE LET r == resolve_column_id(ccs, Head(predicates).id)
         IN  IF ~r.ok THEN Err(r.err)
             ELSE IF r.v >= Len(cols) THEN Panic
             ELSE IF rowno >= Len(cols[r.v + 1]) THEN Panic
             ELSE PredicateLoop(cols, ccs, Tail(predicates), rowno)

\* The loop `for rowno in 0..self.row_length` of map_column_if from `rowno`
\* on: the columns it leaves and how it ends.  The rows before the one where
\* it returns an error or panics stay mapped.
RECURSIVE MapLoop(_, _, _, _, _, _, _)
MapLoop(cols, ccs, rows, ordinal, func, predicates, rowno) ==
    IF rowno >= rows THEN [cols |-> cols, out |-> Ok]
    ELSE IF ordinal >= Len(cols) THEN [cols |-> cols, out |-> Panic]
    ELSE IF rowno >= Len(cols[ordinal + 1]) THEN [cols |-> cols, out |-> Panic]
    ELSE LET p == PredicateLoop(cols, ccs, predicates, rowno)
         IN  IF p.status # "Ok" THEN [cols |-> cols, out |-> p]
             ELSE MapLoop([cols EXCEPT ![ordinal + 1][rowno + 1] =
                              Apply(func, cols[ordinal + 1][rowno + 1])],
                          ccs, rows, ordinal, func, predicates, rowno + 1)

\* Table::map_column_if
MapColumnIf(col_id, func, predicates) ==
    /\ Running
    /\ LET r == resolve_column_id(column_contracts, col_id)
           op == [op |-> "map_column_if", id |-> col_id, func |-> func,
                  predicates |-> predicates]
       IN  IF ~r.ok
           THEN /\ result' = op @@ Err(r.err)
                /\ UNCHANGED columns
           ELSE LET m == MapLoop(columns, column_contracts, row_length, r.v,
                                 func, predicates, 0)
                IN  /\ columns' = m.cols
                    /\ result' = op @@ m.out
    /\ UNCHANGED <<column_contracts, col_length, row_length, par>>

\* Table::map_column: the same loop with no predicate.
MapColumn(col_id, func) ==
    /\ Running
    /\ LET r == resolve_column_id(column_contracts, col_id)
           op == [op |-> "map_column", id |-> col_id, func |-> func]
       IN  IF ~r.ok
           THEN /\ result' = op @@ Err(r.err)
                /\ UNCHANGED columns
           ELSE LET m == MapLoop(columns, column_contracts, row_length, r.v,
                                 func, <<>>, 0)
                IN  /\ columns' = m.cols
                    /\ result' = op @@ m.out
    /\ UNCHANGED <<column_contracts, col_length, row_length, par>>

\* Inputs of the operations.
\* Rows of every arity up to one more than the widest table: of one value
\* throughout, or of two values in turn.
Row(k, first, second) == [i \in 1..k |-> IF i % 2 = 1 THEN first ELSE second]
Rows == {Row(k, first, second) :
            k \in 0..(MaxCols + 1), first \in CellValues, second \in CellValues}
ColumnIds == {Ordinal(n) : n \in 0..MaxCols} \cup {Name(n) : n \in Names}
SchemaArgs ==
    {SchemaFromTuples(t) : t \in SeqsUpTo({<<"a", NumberContract>>}, MaxCols + 1)}

Mutate ==
    \/ \E row \in Rows : AddRow(row)
    \/ \E cc \in ColumnContracts : AddEmptyColumn(cc)
    \/ \E id \in ColumnIds, oc \in BOOLEAN : RemoveColumn(id, oc)
    \/ \E id \in ColumnIds, cc \in ColumnContracts : AlterColumn(id, cc)

\* The table and its schema-evolution operations.
Next ==
    \/ Mutate
    \/ \E id \in ColumnIds : Column(id)
    \/ \E id \in ColumnIds : GetColumnContract(id)

Spec == Init /\ [][Next]_vars

\* The table and its validations.  Every list of contracts is the list of an
\* initial table, and a validation reads each column by itself, so the tables
\* validated are those that construction, add_row and add_empty_column build.
NextValidate ==
    \/ \E row \in Rows : AddRow(row)
    \/ \E cc \in ColumnContracts : AddEmptyColumn(cc)
    \/ \E id \in ColumnIds : ValidateColumn(id)
    \/ \E id \in ColumnIds, cc \in ColumnContracts :
           ValidateColumnAgainstContract(id, cc)
    \/ \E oc \in BOOLEAN : ValidateTable(oc)
    \/ \E schema \in SchemaArgs, strict \in BOOLEAN, oc \in BOOLEAN :
           ValidateTableAgainstSchema(schema, strict, oc)
    \/ ParStart
    \/ \E o \in 0..(MaxCols - 1) : ParTask(o)
    \/ ParJoin
    \/ \E schema \in Schemas : CheckCompatibility(schema)

SpecValidate == Init /\ [][NextValidate]_vars

\* One (column, predicate) pair of map_column_if.
Pred(id, p) == [id |-> id, predicate |-> p]

\* Predicate lists: none, one predicate on any column id, and two predicates
\* on the first two columns.
PredicateLists ==
    {<<>>}
    \cup {<<Pred(id, p)>> : id \in ColumnIds, p \in Predicates}
    \cup {<<Pred(Ordinal(0), p), Pred(Ordinal(1), q)>> :
             p \in Predicates, q \in Predicates}

\* The table and its cell transformations.
NextMap ==
    \/ \E row \in Rows : AddRow(row)
    \/ \E cc \in ColumnContracts : AddEmptyColumn(cc)
    \/ \E id \in ColumnIds, f \in Funcs : MapColumn(id, f)
    \/ \E id \in ColumnIds, f \in Funcs, ps \in PredicateLists :
           MapColumnIf(id, f, ps)

SpecMap == Init /\ [][NextMap]_vars

-----------------------------------------------------------------------------
(* One value validated against one contract (SpecContract)                 *)

ValueTypes == {"Number", "Text", "DateTime", "Missing", "Boolean", "Composite"}

TestValues ==
    {Integer(2), Integer(12), Jim, Text(<<65, 108>>), Missing("Unexpected"),
     Boolean(TRUE)}

TestConstraints ==
    {AnyValue, Not(AnyValue), OneOf(<<Jim, Integer(2)>>), Maximum(Integer(10)),
     Minimum(Integer(10)), MaximumLength(2), MinimumLength(3),
     Not(MaximumLength(2)), Not(MinimumLength(3))}

TestContracts ==
    {ValueContract(IsType(t), vcs) :
        t \in ValueTypes, vcs \in SeqsUpTo(TestConstraints, MaxConstraints)}

\* Values of every variant, with no NaN: 2, 12, 9.5, 10.5, 1+1i, "Jim",
\* "Al", "", a date, both kinds of Missing, both booleans, the empty array
\* and the empty object.
OrderedValues ==
    {Integer(2), Integer(12), Real(95), Real(105), Complex(10, 10), Jim,
     Text(<<65, 108>>), Text(<<>>), DateOnly(YearMonthDay(2020, 1, 2)),
     Missing("Unexpected"), Missing("Expected"), Boolean(TRUE), Boolean(FALSE),
     Array(<<>>), Object(<<>>)}

\* The largest length a length constraint is given.
LengthLimit == 4

\* Constraints with no Not in them.
PlainConstraints ==
    {AnyValue, OneOf(<<Jim, Integer(2)>>)}
        \cup {Maximum(b) : b \in OrderedValues}
        \cup {Minimum(b) : b \in OrderedValues}
        \cup {MaximumLength(n) : n \in 0..LengthLimit}
        \cup {MinimumLength(n) : n \in 0..LengthLimit}

\* Each of them bare, negated and negated twice.
SingleConstraints ==
    PlainConstraints
        \cup {Not(c) : c \in PlainConstraints}
        \cup {Not(Not(c)) : c \in PlainConstraints}

\* An empty table, and either a value and a contract or a value and one
\* constraint to validate it against.
InitContract ==
    /\ columns = <<>>
    /\ column_contracts = <<>>
    /\ col_length = 0
    /\ row_length = 0
    /\ par = ParIdle
    /\ \/ \E v \in TestValues, vc \in TestContracts :
              result = [op |-> "contract", status |-> "Input",
                        value |-> v, contract |-> vc]
       \/ \E v \in OrderedValues, c \in SingleConstraints :
              result = [op |-> "constraint", status |-> "Input",
                        value |-> v, constraint |-> c]

\* contract.validate(&value)
ValidateValue ==
    /\ result.op = "contract"
    /\ result' = [op |-> "validate", status |-> "Done", value |-> result.value,
                  contract |-> result.contract,
                  out |-> ValidateContract(result.contract, result.value)]
    /\ UNCHANGED <<table, par>>

\* constraint.validate(&value)
ValidateValueConstraint ==
    /\ result.op = "constraint"
    /\ result' = [op |-> "validate_constraint", status |-> "Done",
                  value |-> result.value, constraint |-> result.constraint,
                  out |-> ValidateConstraint(result.constraint, result.value)]
    /\ UNCHANGED <<table, par>>

NextContract ==
    \/ ValidateValue
    \/ ValidateValueConstraint

SpecContract == InitContract /\ [][NextContract]_vars

-----------------------------------------------------------------------------
(* Coercion: src/src/value/coercion.rs.  Texts are lists of bytes.         *)

IsDigit(b) == b \in 48..57

\* The decimal digits of a natural number.
RECURSIVE Digits(_)
Digits(n) == IF n < 10 THEN <<48 + n>> ELSE Digits(n \div 10) \o <<48 + (n % 10)>>

\* The number that a list of digits writes; `acc` is the number read so far.
RECURSIVE DigitsValue(_, _)
DigitsValue(bytes, acc) ==
    IF bytes = <<>> THEN acc
    ELSE DigitsValue(Tail(bytes), 10 * acc + (Head(bytes) - 48))

AllDigits(bytes) == bytes # <<>> /\ \A i \in 1..Len(bytes) : IsDigit(bytes[i])

\* i64::to_string
I64ToString(i) == IF i < 0 THEN <<45>> \o Digits(0 - i) ELSE Digits(i)

\* f64::to_string of t tenths: the shortest decimal, no fraction for a whole
\* number.
F64ToString(t) ==
    LET a == IF t < 0 THEN 0 - t ELSE t
        whole == Digits(a \div 10)
        body == IF a % 10 = 0 THEN whole ELSE whole \o <<46, 48 + (a % 10)>>
    IN  IF t < 0 THEN <<45>> \o body ELSE body

\* bool::to_string
BoolToString(b) == IF b = 1 THEN <<116, 114, 117, 101>> ELSE <<102, 97, 108, 115, 101>>

\* {:0>w}: n in at least w digits.
ZeroPad(n, w) == [i \in 1..(w - Len(Digits(n))) |-> 48] \o Digits(n)

\* DateTime<Utc>::to_rfc3339 of a Full date and time in UTC: the seconds are
\* followed by the milliseconds when there are any, the offset is +00:00.
ToRfc3339(pay) ==
    ZeroPad(pay[2], 4) \o <<45>> \o ZeroPad(pay[3], 2) \o <<45>> \o ZeroPad(pay[4], 2)
        \o <<84>> \o ZeroPad(pay[5], 2) \o <<58>> \o ZeroPad(pay[6], 2)
        \o <<58>> \o ZeroPad(pay[7], 2)
        \o (IF pay[8] = 0 THEN <<>> ELSE <<46>> \o ZeroPad(pay[8], 3))
        \o <<43, 48, 48, 58, 48, 48>>

ParseOk(x) == [ok |-> TRUE, v |-> x]
ParseErr == [ok |-> FALSE]

\* str::parse::<i64>: an optional sign and one or more digits.
ParseI64(bytes) ==
    LET signed == bytes # <<>> /\ Head(bytes) \in {43, 45}
        digits == IF signed THEN Tail(bytes) ELSE bytes
    IN  IF ~AllDigits(digits) THEN ParseErr
        ELSE IF signed /\ Head(bytes) = 45
        THEN ParseOk(0 - DigitsValue(digits, 0))
        ELSE ParseOk(DigitsValue(digits, 0))

\* str::parse::<f64> on decimals of at most one fraction digit: an optional
\* sign, digits, and optionally a point and a digit.  The result is in tenths.
ParseF64(bytes) ==
    LET signed == bytes # <<>> /\ Head(bytes) \in {43, 45}
        body == IF signed THEN Tail(bytes) ELSE bytes
        sign == IF signed /\ Head(bytes) = 45 THEN 0 - 1 ELSE 1
        n == Len(body)
    IN  IF AllDigits(body) THEN ParseOk(sign * 10 * DigitsValue(body, 0))
        ELSE IF n >= 3 /\ body[n - 1] = 46 /\ IsDigit(body[n])
                /\ AllDigits(SubSeq(body, 1, n - 2))
        THEN ParseOk(sign * (10 * DigitsValue(SubSeq(body, 1, n - 2), 0)
                                + (body[n] - 48)))
        ELSE ParseErr

\* str::parse::<bool>
ParseBool(bytes) ==
    IF bytes = <<116, 114, 117, 101>> THEN ParseOk(1)
    ELSE IF bytes = <<102, 97, 108, 115, 101>> THEN ParseOk(0)
    ELSE ParseErr

\* str::parse::<DateTime<Local>> and with_timezone(&Utc), on texts written
\* YYYY-MM-DDTHH:MM:SS with the offset +00:00 or Z.
ParseDateTimeLocal(bytes) ==
    LET n == Len(bytes)
        at(i, j) == SubSeq(bytes, i, j)
        num(i, j) == DigitsValue(at(i, j), 0)
    IN  IF /\ n \in {20, 25}
           /\ AllDigits(at(1, 4)) /\ bytes[5] = 45
           /\ AllDigits(at(6, 7)) /\ bytes[8] = 45
           /\ AllDigits(at(9, 10)) /\ bytes[11] = 84
           /\ AllDigits(at(12, 13)) /\ bytes[14] = 58
           /\ AllDigits(at(15, 16)) /\ bytes[17] = 58
           /\ AllDigits(at(18, 19))
           /\ at(20, n) \in {<<90>>, <<43, 48, 48, 58, 48, 48>>}
           /\ num(6, 7) \in 1..12 /\ num(9, 10) \in 1..31
           /\ num(12, 13) \in 0..23 /\ num(15, 16) \in 0..59
           /\ num(18, 19) \in 0..59
        THEN ParseOk(Full(YearMonthDay(num(1, 4), num(6, 7), num(9, 10)),
                          TimeUtc(num(12, 13), num(15, 16), num(18, 19), 0)))
        ELSE ParseErr

\* Result<Value, CoercionError>
OkValue(v) == [status |-> "Ok", value |-> v]

\* enum CoercionError
CoercionFailed(t, s) ==
    [kind |-> "CoercionFailed", target_type |-> t, source_text |-> s]
UnexpectedType == [kind |-> "UnexpectedType"]
DomainError(m) == [kind |-> "DomainError", message |-> m]
CoercionImpossible(f, t) == [kind |-> "CoercionImpossible", from |-> f, to |-> t]

\* Coercion::text_to_number
text_to_number(value) ==
    IF value.type # "Text" THEN Err(UnexpectedType)
    ELSE IF ParseI64(value.pay).ok THEN OkValue(Integer(ParseI64(value.pay).v))
    ELSE IF ParseF64(value.pay).ok THEN OkValue(Real(ParseF64(value.pay).v))
    ELSE Err(CoercionFailed("Number", value.pay))

\* Coercion::text_to_boolean
text_to_boolean(value) ==
    IF value.type # "Text" THEN Err(UnexpectedType)
    ELSE IF ParseBool(value.pay).ok
    THEN OkValue(Boolean(ParseBool(value.pay).v = 1))
    ELSE Err(CoercionFailed("Boolean", value.pay))

\* Coercion::text_to_datetime
text_to_datetime(value) ==
    IF value.type # "Text" THEN Err(UnexpectedType)
    ELSE IF ParseDateTimeLocal(value.pay).ok
    THEN OkValue(ParseDateTimeLocal(value.pay).v)
    ELSE Err(CoercionFailed("DateTime", value.pay))

\* Coercion::number_to_text
number_to_text(value) ==
    IF value.type = "Number" /\ value.sub = "Integer"
    THEN OkValue(Text(I64ToString(value.pay[1])))
    ELSE IF value.type = "Number" /\ value.sub = "Real"
    THEN OkValue(Text(F64ToString(value.pay[1])))
    ELSE IF value.type = "Number" /\ value.sub = "Complex"
    THEN Err(DomainError(
             "Conversion for complex numbers is currently not supported."))
    ELSE Err(UnexpectedType)

\* Coercion::boolean_to_text
boolean_to_text(value) ==
    IF value.type = "Boolean" THEN OkValue(Text(BoolToString(value.pay[1])))
    ELSE Err(UnexpectedType)

\* Coercion::datetime_to_text
datetime_to_text(value) ==
    IF value.type = "DateTime" THEN OkValue(Text(ToRfc3339(value.pay)))
    ELSE Err(UnexpectedType)

\* Coercion::boolean_to_number
boolean_to_number(value) ==
    IF value.type = "Boolean"
    THEN (IF value.pay[1] = 1 THEN OkValue(Integer(1)) ELSE OkValue(Integer(0)))
    ELSE Err(UnexpectedType)

\* Coercion::number_to_boolean
number_to_boolean(value) ==
    IF value.type = "Number" /\ value.sub = "Integer"
    THEN (IF value.pay[1] = 0 THEN OkValue(Boolean(FALSE))
          ELSE IF value.pay[1] = 1 THEN OkValue(Boolean(TRUE))
          ELSE Err(DomainError(
                   <<"Boolean values accepted only as 0 or 1 for integers. Got {}.",
                     value.pay[1]>>)))
    ELSE Err(UnexpectedType)

\* A convert that lacks the arm (Composite, Composite).
ConvertWithoutCompositeArm(value, to_vtype) ==
    LET from == get_value_type(value)
    IN  IF from = to_vtype /\ from \notin {"Missing", "Composite"} THEN OkValue(value)
        ELSE IF from = "Text" /\ to_vtype = "Number" THEN text_to_number(value)
        ELSE IF from = "Text" /\ to_vtype = "Boolean" THEN text_to_boolean(value)
        ELSE IF from = "Text" /\ to_vtype = "DateTime" THEN text_to_datetime(value)
        ELSE IF from = "Number" /\ to_vtype = "Text" THEN number_to_text(value)
        ELSE IF from = "Boolean" /\ to_vtype = "Text" THEN boolean_to_text(value)
        ELSE IF from = "DateTime" /\ to_vtype = "Text" THEN datetime_to_text(value)
        ELSE IF from = "Number" /\ to_vtype = "Boolean" THEN number_to_boolean(value)
        ELSE IF from = "Boolean" /\ to_vtype = "Number" THEN boolean_to_number(value)
        ELSE Err(CoercionImpossible(from, to_vtype))

\* A convert whose arm (a, Missing) names the two types the wrong way round.
ConvertSwapped(value, to_vtype) ==
    LET from == get_value_type(value)
    IN  IF from = to_vtype /\ from # "Missing" THEN OkValue(value)
        ELSE IF from = "Text" /\ to_vtype = "Number" THEN text_to_number(value)
        ELSE IF from = "Text" /\ to_vtype = "Boolean" THEN text_to_boolean(value)
        ELSE IF from = "Text" /\ to_vtype = "Composite"
        THEN Err(CoercionImpossible("Text", "Composite"))
        ELSE IF from = "Text" /\ to_vtype = "DateTime" THEN text_to_datetime(value)
        ELSE IF from = "Number" /\ to_vtype = "Text" THEN number_to_text(value)
        ELSE IF from = "Boolean" /\ to_vtype = "Text" THEN boolean_to_text(value)
        ELSE IF from = "DateTime" /\ to_vtype = "Text" THEN datetime_to_text(value)
        ELSE IF from = "Number" /\ to_vtype = "Boolean" THEN number_to_boolean(value)
        ELSE IF from = "Boolean" /\ to_vtype = "Number" THEN boolean_to_number(value)
        ELSE IF to_vtype = "Missing" THEN Err(CoercionImpossible("Missing", from))
        ELSE Err(CoercionImpossible(from, to_vtype))

\* impl CoercesValues for Coercion: the arms of the match, in their order.
convert(value, to_vtype) ==
    LET from == get_value_type(value)
    IN  IF from = "Number" /\ to_vtype = "Number" THEN OkValue(value)
        ELSE IF from = "DateTime" /\ to_vtype = "DateTime" THEN OkValue(value)
        ELSE IF from = "Boolean" /\ to_vtype = "Boolean" THEN OkValue(value)
        ELSE IF from = "Text" /\ to_vtype = "Text" THEN OkValue(value)
        ELSE IF from = "Composite" /\ to_vtype = "Composite" THEN OkValue(value)
        ELSE IF from = "Text" /\ to_vtype = "Number" THEN text_to_number(value)
        ELSE IF from = "Text" /\ to_vtype = "Boolean" THEN text_to_boolean(value)
        ELSE IF from = "Text" /\ to_vtype = "Composite"
        THEN Err(CoercionImpossible("Text", "Composite"))
        ELSE IF from = "Text" /\ to_vtype = "DateTime" THEN text_to_datetime(value)
        ELSE IF from = "Number" /\ to_vtype = "Text" THEN number_to_text(value)
        ELSE IF from = "Boolean" /\ to_vtype = "Text" THEN boolean_to_text(value)
        ELSE IF from = "DateTime" /\ to_vtype = "Text" THEN datetime_to_text(value)
        ELSE IF from = "Number" /\ to_vtype = "Boolean" THEN number_to_boolean(value)
        ELSE IF from = "Boolean" /\ to_vtype = "Number" THEN boolean_to_number(value)
        ELSE IF to_vtype = "Missing" THEN Err(CoercionImpossible(from, "Missing"))
        ELSE IF from = "Missing" THEN Err(CoercionImpossible("Missing", to_vtype))
        ELSE IF from = "Composite" THEN Err(CoercionImpossible("Composite", to_vtype))
        ELSE IF to_vtype = "Composite" THEN Err(CoercionImpossible(from, "Composite"))
        ELSE IF to_vtype = "DateTime" THEN Err(CoercionImpossible(from, "DateTime"))
        ELSE Err(CoercionImpossible("DateTime", to_vtype))

\* impl From<String> for Value
FromString(text) == IF Len(text) = 0 THEN Missing("Unexpected") ELSE Text(text)

\* impl From<&str> for Value
FromStr(text) == Text(text)

-----------------------------------------------------------------------------
(* Parsing: src/src/value/parsing.rs                                       *)

\* Two digits at positions i and i + 1 that write a number from lo to hi.
TwoDigits(bytes, i, lo, hi) ==
    /\ Len(bytes) >= i + 1
    /\ AllDigits(SubSeq(bytes, i, i + 1))
    /\ DigitsValue(SubSeq(bytes, i, i + 1), 0) \in lo..hi

\* iso8601::date on calendar dates written YYYY-MM-DD.
IsoDate(bytes) ==
    IF /\ Len(bytes) = 10
       /\ AllDigits(SubSeq(bytes, 1, 4))
       /\ bytes[5] = 45 /\ TwoDigits(bytes, 6, 1, 12)
       /\ bytes[8] = 45 /\ TwoDigits(bytes, 9, 1, 31)
    THEN ParseOk([year |-> DigitsValue(SubSeq(bytes, 1, 4), 0),
                  month |-> DigitsValue(SubSeq(bytes, 6, 7), 0),
                  day |-> DigitsValue(SubSeq(bytes, 9, 10), 0)])
    ELSE ParseErr

\* iso8601::time on times written HH:MM:SS, in UTC with or without the Z.
IsoTime(bytes) ==
    IF /\ Len(bytes) \in {8, 9}
       /\ TwoDigits(bytes, 1, 0, 24)
       /\ bytes[3] = 58 /\ TwoDigits(bytes, 4, 0, 59)
       /\ bytes[6] = 58 /\ TwoDigits(bytes, 7, 0, 60)
       /\ Len(bytes) = 9 => bytes[9] = 90
    THEN ParseOk([hour |-> DigitsValue(SubSeq(bytes, 1, 2), 0),
                  minute |-> DigitsValue(SubSeq(bytes, 4, 5), 0),
                  second |-> DigitsValue(SubSeq(bytes, 7, 8), 0),
                  millisecond |-> 0,
                  tz_offset_hours |-> 0, tz_offset_minutes |-> 0])
    ELSE ParseErr

\* iso8601::datetime: a date, a T and a time.
IsoDateTime(bytes) ==
    IF /\ Len(bytes) >= 11
       /\ bytes[11] = 84
       /\ IsoDate(SubSeq(bytes, 1, 10)).ok
       /\ IsoTime(SubSeq(bytes, 12, Len(bytes))).ok
    THEN ParseOk([date |-> IsoDate(SubSeq(bytes, 1, 10)).v,
                  time |-> IsoTime(SubSeq(bytes, 12, Len(bytes))).v])
    ELSE ParseErr

\* translate_iso8601::date_to_dk_date, the arm iso8601::Date::YMD
date_to_dk_date(d) == YearMonthDay(d.year, d.month, d.day)

\* translate_iso8601::time_to_dk_time
time_to_dk_time(t) ==
    <<t.hour, t.minute, t.second, t.millisecond, 0, 0>>
        \o (IF t.tz_offset_hours = 0 /\ t.tz_offset_minutes = 0 THEN <<0>>
            ELSE <<1, t.tz_offset_hours, t.tz_offset_minutes>>)

\* translate_iso8601::datetime_to_dk_datetime
datetime_to_dk_datetime(dt) ==
    Full(date_to_dk_date(dt.date), time_to_dk_time(dt.time))

\* translate_iso8601::iso8601_to_dk_value
iso8601_to_dk_value(bytes) ==
    IF IsoDateTime(bytes).ok
    THEN ParseOk(datetime_to_dk_datetime(IsoDateTime(bytes).v))
    ELSE IF IsoDate(bytes).ok
    THEN ParseOk(DateOnly(date_to_dk_date(IsoDate(bytes).v)))
    ELSE IF IsoTime(bytes).ok
    THEN ParseOk(TimeOnly(time_to_dk_time(IsoTime(bytes).v)))
    ELSE ParseErr

\* serde_json::Value
JsNull == [js |-> "Null"]
JsBool(b) == [js |-> "Bool", b |-> b]
JsString(bytes) == [js |-> "String", s |-> bytes]
JsNumber(repr, n) == [js |-> "Number", repr |-> repr, n |-> n]
JsArray(items) == [js |-> "Array", items |-> items]
JsObject(items) == [js |-> "Object", items |-> items]

\* The digits of i64::MAX and of u64::MAX.
I64MaxDigits ==
    <<57, 50, 50, 51, 51, 55, 50, 48, 51, 54, 56, 53, 52, 55, 55, 53, 56, 48, 55>>
U64MaxDigits ==
    <<49, 56, 52, 52, 54, 55, 52, 52, 48, 55, 51, 55, 48, 57, 53, 53, 49, 54, 49, 53>>

\* The digits write a number above i64::MAX and not above u64::MAX.
AboveI64InU64(ds) ==
    \/ Len(ds) = 19 /\ PayCmp(ds, I64MaxDigits) = "Greater"
    \/ Len(ds) = 20 /\ PayCmp(ds, U64MaxDigits) # "Greater"

\* A JSON number: an optional minus, digits with no leading zero, and
\* optionally a point and one digit.  Digits alone are held as an i64, and
\* as a u64 when they are above i64::MAX and fit (their value is then left
\* out); numbers of 10 to 18 digits are not among the texts.
JsonNumber(bytes) ==
    LET minus == bytes # <<>> /\ Head(bytes) = 45
        body == IF minus THEN Tail(bytes) ELSE bytes
        n == Len(body)
        plain(ds) == AllDigits(ds) /\ (Len(ds) > 1 => ds[1] # 48)
    IN  IF plain(body) /\ ~minus /\ AboveI64InU64(body)
        THEN ParseOk(JsNumber("u64", 0))
        ELSE IF plain(body) THEN ParseOk(JsNumber("i64", ParseI64(bytes).v))
        ELSE IF n >= 3 /\ body[n - 1] = 46 /\ IsDigit(body[n])
                /\ plain(SubSeq(body, 1, n - 2))
        THEN ParseOk(JsNumber("f64", ParseF64(bytes).v))
        ELSE ParseErr

\* The parts of a text between the commas that are outside every string,
\* array and object; `cur` is the part being read, `depth` the number of
\* arrays and objects open, `inq` whether a string is open.
RECURSIVE Split(_, _, _, _)
Split(bytes, cur, depth, inq) ==
    IF bytes = <<>> THEN <<cur>>
    ELSE LET c == Head(bytes)
         IN  IF c = 44 /\ depth = 0 /\ ~inq
             THEN <<cur>> \o Split(Tail(bytes), <<>>, depth, inq)
             ELSE Split(Tail(bytes), Append(cur, c),
                        IF inq THEN depth
                        ELSE IF c \in {91, 123} THEN depth + 1
                        ELSE IF c \in {93, 125} THEN depth - 1
                        ELSE depth,
                        IF c = 34 THEN ~inq ELSE inq)

\* The position of the quote that closes the string opened at position 1,
\* or 0.
ClosingQuote(bytes) ==
    LET S == {i \in 2..Len(bytes) : bytes[i] = 34}
    IN  IF S = {} THEN 0 ELSE CHOOSE i \in S : \A k \in S : i <= k

\* serde_json::from_str on one literal with no white space and no escape:
\* null, a boolean, a number, a string, an array or an object.  Any other
\* text is an error, a number followed by more text included.
RECURSIVE SerdeJson(_)
SerdeJson(bytes) ==
    LET n == Len(bytes)
        parts == IF n <= 2 THEN <<>> ELSE Split(SubSeq(bytes, 2, n - 1), <<>>, 0, FALSE)
        member(part) ==
            LET q == IF part # <<>> /\ Head(part) = 34 THEN ClosingQuote(part) ELSE 0
            IN  IF q > 0 /\ Len(part) > q + 1 /\ part[q + 1] = 58
                   /\ SerdeJson(SubSeq(part, q + 2, Len(part))).ok
                THEN ParseOk(<<SubSeq(part, 2, q - 1),
                               SerdeJson(SubSeq(part, q + 2, Len(part))).v>>)
                ELSE ParseErr
    IN  IF bytes = <<110, 117, 108, 108>> THEN ParseOk(JsNull)
        ELSE IF ParseBool(bytes).ok THEN ParseOk(JsBool(ParseBool(bytes).v = 1))
        ELSE IF JsonNumber(bytes).ok THEN JsonNumber(bytes)
        ELSE IF /\ n >= 2 /\ bytes[1] = 34 /\ bytes[n] = 34
                /\ \A i \in 2..(n - 1) : bytes[i] \notin {34, 92}
        THEN ParseOk(JsString(SubSeq(bytes, 2, n - 1)))
        ELSE IF /\ n >= 2 /\ bytes[1] = 91 /\ bytes[n] = 93
                /\ \A i \in 1..Len(parts) : SerdeJson(parts[i]).ok
        THEN ParseOk(JsArray([i \in 1..Len(parts) |-> SerdeJson(parts[i]).v]))
        ELSE IF /\ n >= 2 /\ bytes[1] = 123 /\ bytes[n] = 125
                /\ \A i \in 1..Len(parts) : member(parts[i]).ok
        THEN ParseOk(JsObject([i \in 1..Len(parts) |-> member(parts[i]).v]))
        ELSE ParseErr

\* jsvalue_to_dkvalue
RECURSIVE jsvalue_to_dkvalue(_)
jsvalue_to_dkvalue(jsvalue) ==
    CASE jsvalue.js = "Null" -> Missing("Expected")
      [] jsvalue.js = "Bool" -> Boolean(jsvalue.b)
      [] jsvalue.js = "String" ->
            IF iso8601_to_dk_value(jsvalue.s).ok
            THEN iso8601_to_dk_value(jsvalue.s).v
            ELSE Text(jsvalue.s)
      [] jsvalue.js = "Number" ->
            IF jsvalue.repr = "i64" THEN Integer(jsvalue.n)
            ELSE IF jsvalue.repr = "f64" THEN Real(jsvalue.n)
            ELSE Missing("Unexpected")
      [] jsvalue.js = "Array" ->
            Array([i \in 1..Len(jsvalue.items) |->
                      jsvalue_to_dkvalue(jsvalue.items[i])])
      [] jsvalue.js = "Object" ->
            Object([i \in 1..Len(jsvalue.items) |->
                       <<jsvalue.items[i][1],
                         jsvalue_to_dkvalue(jsvalue.items[i][2])>>])

\* enum ParsingError
CannotParseValue(bytes) == [kind |-> "CannotParseValue", text |-> bytes]

\* A parser that keeps every literal string as Text.
ParseStringsAsText(bytes) ==
    IF SerdeJson(bytes).ok
    THEN OkValue(IF SerdeJson(bytes).v.js = "String"
                 THEN Text(SerdeJson(bytes).v.s)
                 ELSE jsvalue_to_dkvalue(SerdeJson(bytes).v))
    ELSE Err(CannotParseValue(bytes))

\* impl ParsesValues for Parser
parse(bytes) ==
    IF SerdeJson(bytes).ok THEN OkValue(jsvalue_to_dkvalue(SerdeJson(bytes).v))
    ELSE Err(CannotParseValue(bytes))

-----------------------------------------------------------------------------
(* One call of a conversion, a construction helper or the parser           *)
(* (SpecValue)                                                             *)

\* The values handed to convert: every Numeric, texts that do and do not
\* parse, a date and time, both Empty, both booleans, both collections.
CoercionValues ==
    {Integer(0), Integer(1), Integer(2), Integer(0 - 7),
     Real(10), Real(15), Complex(10, 0 - 5),
     Jim, Text(<<49>>), Text(<<49, 46, 53>>), Text(<<116, 114, 117, 101>>),
     Text(<<50, 48, 50, 48, 45, 48, 49, 45, 48, 50, 84, 48, 51, 58, 48, 52,
            58, 48, 53, 43, 48, 48, 58, 48, 48>>),
     Full(YearMonthDay(2020, 1, 2), TimeUtc(3, 4, 5, 0)),
     Full(YearMonthDay(1999, 12, 31), TimeUtc(23, 59, 59, 250)),
     Missing("Unexpected"), Missing("Expected"),
     Boolean(TRUE), Boolean(FALSE), Array(<<>>), Object(<<>>)}

\* The texts handed to the construction helpers and to the parser:
\*   (the empty text)
\*   hello
\*   137
\*   13.7
\*   true
\*   null
\*   []
\*   {}
\*   -@(#$*
\*   "foo"
\*   2020-01-02
\*   "2020-01-02"
\*   03:04:05
\*   "03:04:05Z"
\*   2020-01-02T03:04:05Z
\*   "2020-01-02T03:04:05Z"
\*   2020-01-02T03:04:05+00:00
\*   "137"
\*   [1,2,3]
\*   {"a":1,"b":[2,3],"c":{"d":"foo"}}
\*   ["2020-01-02",null]
\*   18446744073709551615
\*   -5
\*   01
\*   [1,
\*   false
\*   "03:04:05"
Texts ==
    {
     <<>>,
     <<104, 101, 108, 108, 111>>,
     <<49, 51, 55>>,
     <<49, 51, 46, 55>>,
     <<116, 114, 117, 101>>,
     <<110, 117, 108, 108>>,
     <<91, 93>>,
     <<123, 125>>,
     <<45, 64, 40, 35, 36, 42>>,
     <<34, 102, 111, 111, 34>>,
     <<50, 48, 50, 48, 45, 48, 49, 45, 48, 50>>,
     <<34, 50, 48, 50, 48, 45, 48, 49, 45, 48, 50, 34>>,
     <<48, 51, 58, 48, 52, 58, 48, 53>>,
     <<34, 48, 51, 58, 48, 52, 58, 48, 53, 90, 34>>,
     <<50, 48, 50, 48, 45, 48, 49, 45, 48, 50, 84, 48, 51, 58, 48, 52, 58, 48, 53, 90>>,
     <<34, 50, 48, 50, 48, 45, 48, 49, 45, 48, 50, 84, 48, 51, 58, 48, 52, 58, 48, 53, 90, 34>>,
     <<50, 48, 50, 48, 45, 48, 49, 45, 48, 50, 84, 48, 51, 58, 48, 52, 58, 48, 53, 43, 48, 48, 58, 48, 48>>,
     <<34, 49, 51, 55, 34>>,
     <<91, 49, 44, 50, 44, 51, 93>>,
     <<123, 34, 97, 34, 58, 49, 44, 34, 98, 34, 58, 91, 50, 44, 51, 93, 44, 34, 99, 34, 58, 123, 34, 100, 34, 58, 34, 102, 111, 111, 34, 125, 125>>,
     <<91, 34, 50, 48, 50, 48, 45, 48, 49, 45, 48, 50, 34, 44, 110, 117, 108, 108, 93>>,
     <<49, 56, 52, 52, 54, 55, 52, 52, 48, 55, 51, 55, 48, 57, 53, 53, 49, 54, 49, 53>>,
     <<45, 53>>,
     <<48, 49>>,
     <<91, 49, 44>>,
     <<102, 97, 108, 115, 101>>,
     <<34, 48, 51, 58, 48, 52, 58, 48, 53, 34>>}

Calls ==
    {[op |-> "call", fn |-> "convert", value |-> v, to |-> t] :
        v \in CoercionValues, t \in ValueTypes}
    \cup {[op |-> "call", fn |-> f, text |-> x] :
             f \in {"from_string", "from_str", "parse"}, x \in Texts}

\* An empty table, and a call to make.
InitValue ==
    /\ columns = <<>>
    /\ column_contracts = <<>>
    /\ col_length = 0
    /\ row_length = 0
    /\ par = ParIdle
    /\ result \in Calls

\* Coercion::new().convert(&value, &to)
Convert ==
    /\ result.op = "call" /\ result.fn = "convert"
    /\ result' = [op |-> "convert", value |-> result.value, to |-> result.to,
                  out |-> convert(result.value, result.to)]
    /\ UNCHANGED <<table, par>>

\* Value::from(text), text a String
ValueFromString ==
    /\ result.op = "call" /\ result.fn = "from_string"
    /\ result' = [op |-> "from_string", text |-> result.text,
                  out |-> FromString(result.text)]
    /\ UNCHANGED <<table, par>>

\* Value::from(text), text a &str
ValueFromStr ==
    /\ result.op = "call" /\ result.fn = "from_str"
    /\ result' = [op |-> "from_str", text |-> result.text,
                  out |-> FromStr(result.text)]
    /\ UNCHANGED <<table, par>>

\* Parser::new().parse(text)
Parse ==
    /\ result.op = "call" /\ result.fn = "parse"
    /\ result' = [op |-> "parse", text |-> result.text,
                  out |-> parse(result.text)]
    /\ UNCHANGED <<table, par>>

NextValue ==
    \/ Convert
    \/ ValueFromString
    \/ ValueFromStr
    \/ Parse

SpecValue == InitValue /\ [][NextValue]_vars

-----------------------------------------------------------------------------
(* Claims on the table and its schema-evolution operations (Spec)          *)

\* The k-th smallest member of a set of numbers.
Nth(S, k) == CHOOSE x \in S : Cardinality({y \in S : y < x}) = k - 1

\* Operations that take a ColumnId.
IdOps == {"column", "column_contract", "remove_column", "alter_column",
          "validate_column", "validate_column_against_contract",
          "map_column", "map_column_if"}

\* The id names an existing column: a name some contract carries, or an
\* ordinal below the number of columns.
Designates(col_id) ==
    IF col_id.kind = "Name"
    THEN \E i \in 1..Len(column_contracts) :
             column_contracts[i].name = col_id.name
    ELSE col_id.ord < Len(columns)

\* C1: every column holds exactly row_length values, in every state reached
\* from from_schema by the mutating operations.
C1_EveryColumnHasRowLength ==
    \A i \in 1..Len(columns) : Len(columns[i]) = row_length

\* C2: add_row is all-or-nothing.  A row whose arity differs from the number
\* of columns is answered DimensionError and changes nothing; any other row
\* is appended, row[i] at the end of column i for every i, and row_length
\* grows by exactly 1.
C2_AddRowAllOrNothing ==
    [][result'.op = "add_row" =>
          IF Len(result'.row) # Len(columns)
          THEN /\ result'.status = "Err"
               /\ result'.err = DimensionError
               /\ UNCHANGED table
          ELSE /\ result'.status = "Ok"
               /\ columns' = [i \in 1..Len(columns) |->
                                 Append(columns[i], result'.row[i])]
               /\ row_length' = row_length + 1
               /\ UNCHANGED <<column_contracts, col_length>>]_vars

\* A second row of two different values has been appended to a table of two
\* columns.
C2_Witness ==
    /\ result.op = "add_row"
    /\ result.status = "Ok"
    /\ row_length = 2
    /\ Len(columns) = 2
    /\ result.row[1] # result.row[2]

\* C3: an operation given an id that designates no column returns
\* ColumnError::Unknown(id) and leaves the table unchanged.
C3_UnknownIdIsReturned ==
    [][(result'.op \in IdOps /\ ~Designates(result'.id)) =>
          /\ result'.status = "Err"
          /\ result'.err = Unknown(result'.id)
          /\ UNCHANGED table]_vars

\* C4: no two column contracts of the table carry the same name.
C4_ColumnNamesUnique ==
    \A i, j \in 1..Len(column_contracts) :
        i # j => column_contracts[i].name # column_contracts[j].name

\* C5: the number of data columns, the number of column contracts and the
\* col_length counter are equal in every state.
C5_ColumnCountsAgree ==
    /\ Len(columns) = Len(column_contracts)
    /\ Len(columns) = col_length

\* A column has been removed from a table that add_empty_column had widened.
C5_Witness ==
    /\ result.op = "remove_column"
    /\ result.status = "Ok"
    /\ col_length = 1
    /\ row_length = 1
    /\ Len(columns[1]) = 0

-----------------------------------------------------------------------------
(* Claims on table validation (SpecValidate)                               *)

\* The cell passes the contract of its own column.
CellPasses(c, r) ==
    ValidateContract(column_contracts[c].value_contract, columns[c][r]).ok

\* C7: validate_table is Ok iff every cell satisfies the contract of its
\* column; and from a table on which it is Ok, changing the one cell at
\* column c, row r to a value that violates c's contract makes it return
\* InvalidData with exactly one key, the name of c, mapped to exactly one
\* entry, whose row index is r.
C7_ValidateTableFindsTheCell ==
    result.op = "validate_table" =>
        /\ result.status = "Ok" <=>
              \A c \in 1..Len(columns) : \A r \in 1..Len(columns[c]) :
                  CellPasses(c, r)
        /\ result.status = "Ok" =>
              \A c \in 1..Len(columns) : \A r \in 1..Len(columns[c]) :
                  \A v \in CellValues, oc \in BOOLEAN :
                      ~ValidateContract(column_contracts[c].value_contract,
                                        v).ok =>
                          LET changed == [columns EXCEPT ![c][r] = v]
                              out == validate_table(changed, column_contracts, oc)
                              key == column_contracts[c].name
                          IN  /\ out.status = "Err"
                              /\ out.err.kind = "InvalidData"
                              /\ DOMAIN out.err.map = {key}
                              /\ Len(out.err.map[key]) = 1
                              /\ out.err.map[key][1][1] = r - 1

\* validate_table has returned Ok on a table of two columns and two rows.
C7_Witness ==
    /\ result.op = "validate_table"
    /\ result.status = "Ok"
    /\ Len(columns) = 2
    /\ \A c \in 1..2 : Len(columns[c]) = 2

\* C8: validate_table_par returns what validate_table returns on the same
\* table: both Ok, or both InvalidData with the same keys and, per key, the
\* same list of (row index, error) entries.
C8_ParallelEqualsSequential ==
    (result.op = "validate_table_par" /\ ~par.active) =>
        \A oc \in BOOLEAN :
            LET seq == validate_table(columns, column_contracts, oc)
            IN  /\ seq.status = result.status
                /\ seq.status = "Err" =>
                      /\ seq.err.kind = result.err.kind
                      /\ DOMAIN seq.err.map = DOMAIN result.err.map
                      /\ \A k \in DOMAIN seq.err.map :
                             seq.err.map[k] = result.err.map[k]

\* The parallel validation has reported two columns, one of them in two rows.
C8_Witness ==
    /\ result.op = "validate_table_par"
    /\ result.status = "Err"
    /\ Cardinality(DOMAIN result.err.map) = 2
    /\ \E k \in DOMAIN result.err.map : Len(result.err.map[k]) = 2

C10_StrictReportsFirstExtraColumn ==
    (/\ result.op = "validate_table_against_schema"
     /\ result.strict
     /\ Len(columns) > Len(result.schema.column_contracts)) =>
        /\ result.status = "Err"
        /\ result.err = Unknown(Ordinal(Len(result.schema.column_contracts)))

\* The contracts a validation of the whole table has checked the columns
\* against: the table's own, or those of the schema it was given.
Supplied ==
    IF result.op = "validate_table" THEN column_contracts
    ELSE result.schema.column_contracts

\* The cell at column c, row r fails the c-th of the contracts cs.
CellFails(cs, c, r) == ~ValidateContract(cs[c].value_contract, columns[c][r]).ok

\* C11: lenient validation against a schema checks exactly the first
\* min(table columns, schema contracts) columns, column i against contract i,
\* and leaves the others unchecked: it is Ok when no cell of those columns
\* fails, a schema of no contracts included, and InvalidData keyed by the
\* names of the failing ones among them otherwise.
C11_LenientChecksCommonPrefix ==
    (result.op = "validate_table_against_schema" /\ ~result.strict) =>
        LET cs == result.schema.column_contracts
            n == Min({Len(columns), Len(cs)})
            bad == {c \in 1..n : \E r \in 1..Len(columns[c]) : CellFails(cs, c, r)}
        IN  IF bad = {} THEN result.status = "Ok"
            ELSE /\ result.status = "Err"
                 /\ result.err.kind = "InvalidData"
                 /\ DOMAIN result.err.map = {column_contracts[c].name : c \in bad}

\* C12: validation of the whole table never aborts early.  Every failing
\* cell of a checked column (one below the number of supplied contracts) is
\* in the error returned, under its column's name and with its row index,
\* in strict and in lenient mode, extra table columns or not.
C12_EveryFailingCellIsReported ==
    result.op \in {"validate_table", "validate_table_against_schema"} =>
        \A c \in 1..Min({Len(columns), Len(Supplied)}) :
            \A r \in 1..Len(columns[c]) :
                CellFails(Supplied, c, r) =>
                    /\ result.status = "Err"
                    /\ result.err.kind = "InvalidData"
                    /\ column_contracts[c].name \in DOMAIN result.err.map
                    /\ \E i \in 1..Len(result.err.map[column_contracts[c].name]) :
                           result.err.map[column_contracts[c].name][i] =
                               <<r - 1, ValidateContract(
                                            Supplied[c].value_contract,
                                            columns[c][r])>>

\* The table has a column of the name of the schema contract t.
HasName(t) ==
    \E i \in 1..Len(column_contracts) : column_contracts[i].name = t.name

\* The table has a column of the name of t whose ValueContract equals t's.
HasEqual(t) ==
    \E i \in 1..Len(column_contracts) :
        /\ column_contracts[i].name = t.name
        /\ column_contracts[i].value_contract = t.value_contract

\* C13: check_compatibility is Ok iff every contract of the schema has a
\* table column of its name with an equal ValueContract; otherwise it
\* returns one SchemaError per offending schema column, in schema order:
\* MissingColumn(name) when no table column has the name, else
\* ConflictingConstraints{expected: the schema's contract, received: the
\* table's contract of that name}.  The table is unchanged.
C13_CompatibilityIsASchemaDiff ==
    [][result'.op = "check_compatibility" =>
          LET theirs == result'.schema.column_contracts
              offending == {k \in 1..Len(theirs) : ~HasEqual(theirs[k])}
          IN  /\ UNCHANGED table
              /\ result'.status = "Ok" <=> offending = {}
              /\ offending # {} =>
                    /\ result'.status = "Err"
                    /\ Len(result'.err.schema_errors) = Cardinality(offending)
                    /\ \A k \in 1..Cardinality(offending) :
                          LET t == theirs[Nth(offending, k)]
                              e == result'.err.schema_errors[k]
                          IN  IF ~HasName(t) THEN e = MissingColumn(t.name)
                              ELSE /\ e.kind = "ConflictingConstraints"
                                   /\ e.expected = t
                                   /\ e.received.name = t.name
                                   /\ \E i \in 1..Len(column_contracts) :
                                          e.received = column_contracts[i]]_vars

-----------------------------------------------------------------------------
(* Claims on the cell transformations (SpecMap)                            *)

\* The 1-based position of the column that a designating id names.
ColumnOf(col_id) == resolve_column_id(column_contracts, col_id).v + 1

\* Every predicate of the list holds on the cell that its column has in row r.
AllHold(predicates, r) ==
    \A i \in 1..Len(predicates) :
        Holds(predicates[i].predicate,
              columns[ColumnOf(predicates[i].id)][r])

\* C14: map_column_if is gated per row.  Called on a table whose columns all
\* hold row_length values, with ids that designate columns, it returns Ok,
\* replaces the cell of the column in row r by func(old cell) if every
\* predicate holds on row r's cell of the column the predicate names, keeps
\* the cell if some predicate is false there, and changes nothing else; with
\* no predicate every cell is replaced, as map_column does.
C14_MapColumnIfIsGated ==
    [][(/\ result'.op = "map_column_if"
        /\ C1_EveryColumnHasRowLength
        /\ Designates(result'.id)
        /\ \A i \in 1..Len(result'.predicates) :
               Designates(result'.predicates[i].id)) =>
          /\ result'.status = "Ok"
          /\ columns' =
                [c \in 1..Len(columns) |->
                    IF c # ColumnOf(result'.id) THEN columns[c]
                    ELSE [r \in 1..row_length |->
                             IF AllHold(result'.predicates, r)
                             THEN Apply(result'.func, columns[c][r])
                             ELSE columns[c][r]]]
          /\ UNCHANGED <<column_contracts, col_length, row_length>>]_vars

-----------------------------------------------------------------------------
(* Claims on schema evolution (Spec)                                       *)

\* The 1-based positions of the contracts named n.
Named(n) == {i \in 1..Len(column_contracts) : column_contracts[i].name = n}

\* C25: add_empty_column with a name that an existing column carries returns
\* AlreadyExists{ordinal, name}, ordinal being the position of the existing
\* column of that name, and changes nothing; with a new name it appends the
\* contract and one new column after all existing columns, whose ordinals,
\* contracts and data stay as they were.
C25_AddEmptyColumn ==
    [][result'.op = "add_empty_column" =>
          LET cc == result'.contract
          IN  IF Named(cc.name) # {}
              THEN /\ result'.status = "Err"
                   /\ result'.err.kind = "AlreadyExists"
                   /\ result'.err.name = cc.name
                   /\ result'.err.ordinal + 1 \in Named(cc.name)
                   /\ UNCHANGED table
              ELSE /\ result'.status = "Ok"
                   /\ Len(column_contracts') = Len(column_contracts) + 1
                   /\ Len(columns') = Len(columns) + 1
                   /\ column_contracts'[Len(column_contracts')] = cc
                   /\ \A i \in 1..Len(column_contracts) :
                         column_contracts'[i] = column_contracts[i]
                   /\ \A i \in 1..Len(columns) : columns'[i] = columns[i]]_vars

\* A second column named b has been refused at ordinal 1 on a table that
\* holds a row.
C25_Witness ==
    /\ result.op = "add_empty_column"
    /\ result.status = "Err"
    /\ result.err = AlreadyExists(1, "b")
    /\ row_length = 1

\* The 1-based position of the column the id designates.
Target(col_id) ==
    IF col_id.kind = "Name" THEN Min(Named(col_id.name)) ELSE col_id.ord + 1

\* C27: schema evolution does not touch row data.  alter_column on an
\* existing column replaces the contract at its ordinal and nothing else:
\* the data of every column, every other contract, the number of columns
\* and row_length stay.  remove_column on an existing column removes the
\* data and the contract at its ordinal together, moves every later column
\* down by one ordinal with its contract and data still paired, and leaves
\* the earlier columns and row_length as they were.
C27_EvolutionKeepsRowData ==
    [][/\ (result'.op = "alter_column" /\ Designates(result'.id)) =>
             LET k == Target(result'.id)
             IN  /\ result'.status = "Ok"
                 /\ Len(column_contracts') = Len(column_contracts)
                 /\ column_contracts'[k] = result'.contract
                 /\ \A i \in 1..Len(column_contracts) :
                       i # k => column_contracts'[i] = column_contracts[i]
                 /\ UNCHANGED <<columns, col_length, row_length>>
       /\ (result'.op = "remove_column" /\ Designates(result'.id)) =>
             LET k == Target(result'.id)
             IN  /\ result'.status = "Ok"
                 /\ Len(columns') = Len(columns) - 1
                 /\ Len(column_contracts') = Len(column_contracts) - 1
                 /\ col_length' = col_length - 1
                 /\ \A i \in 1..(k - 1) :
                       /\ columns'[i] = columns[i]
                       /\ column_contracts'[i] = column_contracts[i]
                 /\ \A i \in k..Len(columns') :
                       /\ columns'[i] = columns[i + 1]
                       /\ column_contracts'[i] = column_contracts[i + 1]
                 /\ UNCHANGED row_length]_vars

\* The first of two columns has been removed from a table that holds a row,
\* and the second column has moved to ordinal 0 with its data.
C27_Witness ==
    /\ result.op = "remove_column"
    /\ result.status = "Ok"
    /\ result.id = Ordinal(0)
    /\ Len(columns) = 1
    /\ row_length = 1
    /\ column_contracts[1].name = "b"
    /\ Len(columns[1]) = 1

-----------------------------------------------------------------------------
(* Claims on column validation (SpecValidate)                              *)

\* C26: validate_column(id) and validate_column_against_contract(id,
\* contract) on an existing column are exhaustive.  They return Ok iff no
\* cell of the column fails the contract used (the column's own, respectively
\* the one supplied); otherwise they return ContainsInvalidValues with the
\* contract used and exactly one entry (r, e) per failing row r, in strictly
\* increasing row order, e being the result of validating that cell; rows
\* that pass do not appear, and the table is unchanged.
C26_ColumnValidationIsExhaustive ==
    [][(/\ result'.op \in {"validate_column", "validate_column_against_contract"}
        /\ Designates(result'.id)) =>
          LET k == Target(result'.id)
              used == IF result'.op = "validate_column" THEN column_contracts[k]
                      ELSE result'.contract
              cell(r) == ValidateContract(used.value_contract, columns[k][r])
              failing == {r \in 1..Len(columns[k]) : ~cell(r).ok}
          IN  /\ result'.status = "Ok" <=> failing = {}
              /\ failing # {} =>
                    /\ result'.status = "Err"
                    /\ result'.err.kind = "ContainsInvalidValues"
                    /\ result'.err.contract = used
                    /\ Len(result'.err.errors) = Cardinality(failing)
                    /\ \A i \in 1..Len(result'.err.errors) :
                          LET e == result'.err.errors[i]
                          IN  /\ e[1] + 1 \in failing
                              /\ e[2] = cell(e[1] + 1)
                              /\ \A j \in 1..(i - 1) :
                                    result'.err.errors[j][1] < e[1]
              /\ UNCHANGED table]_vars

\* A column holding 2 and then "Jim" has been validated against a Number
\* contract: the only entry is the one of row 1.
C26_Witness ==
    /\ result.op = "validate_column_against_contract"
    /\ result.status = "Err"
    /\ result.id = Ordinal(0)
    /\ columns[1] = <<Integer(2), Jim>>
    /\ result.contract.value_contract = NumberContract
    /\ Len(result.err.errors) = 1
    /\ result.err.errors[1][1] = 1

\* C30: given a schema of more contracts than the table has columns,
\* validate_table_against_schema ignores the surplus contracts, in strict
\* and in lenient mode alike.  It validates column i against contract i for
\* every column of the table, never reports the columns the table lacks, and
\* returns Ok iff every existing cell passes; the keys of the error map are
\* the table's own column names, not the names in the schema.
C30_SurplusContractsAreIgnored ==
    (/\ result.op = "validate_table_against_schema"
     /\ Len(result.schema.column_contracts) > Len(columns)) =>
        LET cs == result.schema.column_contracts
            bad == {c \in 1..Len(columns) :
                       \E r \in 1..Len(columns[c]) : CellFails(cs, c, r)}
        IN  /\ result.status = "Ok" <=> bad = {}
            /\ bad # {} =>
                  /\ result.status = "Err"
                  /\ result.err.kind = "InvalidData"
                  /\ DOMAIN result.err.map = {column_contracts[c].name : c \in bad}
                  /\ \A key \in DOMAIN result.err.map :
                        \E c \in bad :
                            /\ column_contracts[c].name = key
                            /\ Len(result.err.map[key]) =
                                  Cardinality({r \in 1..Len(columns[c]) :
                                                  CellFails(cs, c, r)})
                            /\ \A i \in 1..Len(result.err.map[key]) :
                                  LET e == result.err.map[key][i]
                                  IN  /\ CellFails(cs, c, e[1] + 1)
                                      /\ e[2] = ValidateContract(
                                                    cs[c].value_contract,
                                                    columns[c][e[1] + 1])

\* A strict validation of a table of two columns against a schema of three
\* contracts named a has reported the cells of the table's column b.
C30_Witness ==
    /\ result.op = "validate_table_against_schema"
    /\ result.strict
    /\ Len(result.schema.column_contracts) = 3
    /\ Len(columns) = 2
    /\ result.status = "Err"
    /\ "b" \in DOMAIN result.err.map

-----------------------------------------------------------------------------
(* Claims on cell transformation (SpecMap)                                 *)

\* The call is a map_column or a map_column_if whose target and predicate
\* columns all exist.
MapsExistingColumns(call) ==
    /\ call.op \in {"map_column", "map_column_if"}
    /\ Designates(call.id)
    /\ call.op = "map_column_if" =>
          \A i \in 1..Len(call.predicates) : Designates(call.predicates[i].id)

\* C28: map_column and map_column_if never access a cell outside a column.
\* On every table that from_schema, add_row and add_empty_column build and
\* for every id of an existing column they return Ok, having visited the
\* rows 0..row_length-1 of the target column and of each predicate column,
\* and they leave every other column, all contracts and the length of every
\* column unchanged.
C28_MapStaysInsideColumns ==
    [][MapsExistingColumns(result') =>
          /\ result'.status = "Ok"
          /\ Len(columns') = Len(columns)
          /\ \A c \in 1..Len(columns) :
                /\ Len(columns'[c]) = Len(columns[c])
                /\ c # Target(result'.id) => columns'[c] = columns[c]
          /\ UNCHANGED <<column_contracts, col_length, row_length>>]_vars

-----------------------------------------------------------------------------
(* Claims on contracts (SpecContract)                                      *)

\* The positions of the value constraints of vc that fail on v.
Failing(vc, v) ==
    {i \in 1..Len(vc.value_constraints) :
        ~ValidateConstraint(vc.value_constraints[i], v).ok}

\* C6: ValueContract::validate never short-circuits.  It is Ok iff the type
\* matches and no value constraint fails; otherwise its error carries the
\* value and one cause per failure: the TypeError first when the type
\* mismatches, then the cause of each failing value constraint in the order
\* of declaration, also when the type check has failed.
C6_ValidateReportsEveryFailure ==
    result.op = "validate" =>
        LET v == result.value
            vc == result.contract
            out == result.out
            mismatch == vc.expected_type.expected # get_value_type(v)
            t == IF mismatch THEN 1 ELSE 0
            failing == Failing(vc, v)
        IN  /\ out.ok <=> (~mismatch /\ failing = {})
            /\ ~out.ok =>
                  /\ out.offending_value = v
                  /\ Len(out.failed_constraints) = t + Cardinality(failing)
                  /\ mismatch =>
                        out.failed_constraints[1] =
                            TypeError(vc.expected_type.expected,
                                      get_value_type(v))
                  /\ \A k \in 1..Cardinality(failing) :
                        <<out.failed_constraints[t + k]>> =
                            ValidateConstraint(
                                vc.value_constraints[Nth(failing, k)],
                                v).failed_constraints

\* A value of the wrong type has also failed two value constraints.
C6_Witness ==
    /\ result.op = "validate"
    /\ result.contract.expected_type.expected # result.value.type
    /\ Cardinality(Failing(result.contract, result.value)) = 2
    /\ Len(result.out.failed_constraints) = 3

\* The causes reported name ConstraintError::ValueError.
HasValueError(out) ==
    \E i \in 1..Len(out.failed_constraints) :
        out.failed_constraints[i].kind = "ValueError"

\* C22: MaximumLength(n) and MinimumLength(n) on a value that is not a Text
\* always fail with exactly one cause, InvalidConstraintError, never with a
\* ValueError; on Text(s) they pass iff length(s) <= n, respectively
\* length(s) >= n, and otherwise fail with exactly one cause, the ValueError
\* of the constraint itself.
C22_LengthConstraints ==
    (result.op = "validate_constraint"
        /\ result.constraint.kind \in {"MaximumLength", "MinimumLength"}) =>
        LET v == result.value
            c == result.constraint
            out == result.out
            fits == IF c.kind = "MaximumLength" THEN Len(v.pay) <= c.len
                    ELSE Len(v.pay) >= c.len
        IN  IF v.type # "Text"
            THEN /\ ~out.ok
                 /\ out.failed_constraints = <<InvalidConstraintError>>
                 /\ ~HasValueError(out)
            ELSE /\ out.ok <=> fits
                 /\ ~out.ok => out.failed_constraints = <<ValueError(c)>>

\* MinimumLength(0), which every text satisfies, has failed on a Boolean as
\* an inapplicable constraint.
C22_Witness ==
    /\ result.op = "validate_constraint"
    /\ result.constraint = MinimumLength(0)
    /\ result.value = Boolean(TRUE)
    /\ ~result.out.ok
    /\ result.out.failed_constraints = <<InvalidConstraintError>>

\* The position of x in the sequence order.
Position(x, order) == CHOOSE i \in 1..Len(order) : order[i] = x

VariantOrder == <<"Number", "Text", "DateTime", "Missing", "Boolean", "Composite">>

\* The declaration order of the inner variants of each variant of Value.
InnerOrder(type) ==
    CASE type = "Number" -> <<"Integer", "Real", "Complex">>
      [] type = "Missing" -> <<"Unexpected", "Expected">>
      [] type = "DateTime" -> <<"Date", "Time", "Full">>
      [] type = "Composite" -> <<"Array", "Object">>
      [] type = "Text" -> <<"String">>
      [] type = "Boolean" -> <<"bool">>

\* a <= b in the derived order: the variant decides, then the inner variant,
\* and the payloads are compared only between equal variants.
DerivedLe(a, b) ==
    LET pa == Position(a.type, VariantOrder)
        pb == Position(b.type, VariantOrder)
        ia == Position(a.sub, InnerOrder(a.type))
        ib == Position(b.sub, InnerOrder(b.type))
    IN  \/ pa < pb
        \/ pa = pb /\ ia < ib
        \/ pa = pb /\ ia = ib /\ PayCmp(a.pay, b.pay) # "Greater"

\* C23: Maximum(bound) passes iff the value is <= bound and Minimum(bound)
\* iff it is >= bound in the derived order of Value, across kinds too: every
\* Integer passes Maximum(Real r) and every Text fails Maximum(Number n).
\* A failure is the ValueError of the constraint, never a type error, and of
\* two values without NaN one is always <= the other.
C23_BoundsUseTheDerivedOrder ==
    (result.op = "validate_constraint"
        /\ result.constraint.kind \in {"Maximum", "Minimum"}) =>
        LET v == result.value
            c == result.constraint
            out == result.out
            bound == IF c.kind = "Maximum" THEN c.max ELSE c.min
        IN  /\ out.ok <=> (IF c.kind = "Maximum" THEN DerivedLe(v, bound)
                           ELSE DerivedLe(bound, v))
            /\ ~out.ok => out.failed_constraints = <<ValueError(c)>>
            /\ (c.kind = "Maximum" /\ v.sub = "Integer" /\ bound.sub = "Real") =>
                  out.ok
            /\ (c.kind = "Maximum" /\ v.type = "Text" /\ bound.type = "Number") =>
                  ~out.ok
            /\ ValueLe(v, bound) \/ ValueGe(v, bound)

\* The Integer 12 has passed Maximum(Real 9.5).
C23_Witness ==
    /\ result.op = "validate_constraint"
    /\ result.constraint = Maximum(Real(95))
    /\ result.value = Integer(12)
    /\ result.out.ok

\* C24: Not(inner) passes iff inner fails; when it fails it reports exactly
\* one cause, the ValueError of the Not itself, and none of inner's causes;
\* Not(Not(c)) passes exactly where c passes.
C24_NotInvertsItsInner ==
    (result.op = "validate_constraint" /\ result.constraint.kind = "Not") =>
        LET v == result.value
            c == result.constraint
            out == result.out
        IN  /\ out.ok <=> ~ValidateConstraint(c.inner, v).ok
            /\ ~out.ok =>
                  /\ out.failed_constraints = <<ValueError(c)>>
                  /\ out.offending_value = v
            /\ c.inner.kind = "Not" =>
                  (out.ok <=> ValidateConstraint(c.inner.inner, v).ok)

\* Not(Not(Maximum(2))) has failed on 12, as Maximum(2) does, with its own
\* ValueError.
C24_Witness ==
    /\ result.op = "validate_constraint"
    /\ result.constraint = Not(Not(Maximum(Integer(2))))
    /\ result.value = Integer(12)
    /\ result.out = ValidErr(Integer(12), <<ValueError(Not(Not(Maximum(Integer(2)))))>>)

\* c is the negation of a length constraint.
IsNotOfLength(c) ==
    c.kind = "Not" /\ c.inner.kind \in {"MaximumLength", "MinimumLength"}

\* C29: Not treats an inapplicable inner constraint as a failing one.  On a
\* value that is not a Text, Not(MaximumLength(n)) and Not(MinimumLength(n))
\* pass for every n, and a contract whose only value constraint is such a
\* Not reports no InvalidConstraintError.
C29_NotHidesInapplicableLength ==
    /\ (result.op = "validate_constraint" /\ IsNotOfLength(result.constraint)
            /\ result.value.type # "Text") =>
          result.out.ok
    /\ (result.op = "validate" /\ Len(result.contract.value_constraints) = 1
            /\ IsNotOfLength(result.contract.value_constraints[1])
            /\ result.value.type # "Text") =>
          /\ result.out.ok <=>
                result.contract.expected_type.expected = result.value.type
          /\ ~result.out.ok =>
                \A i \in 1..Len(result.out.failed_constraints) :
                    result.out.failed_constraints[i] # InvalidConstraintError

\* A Number contract whose only value constraint is Not(MinimumLength(3))
\* has accepted the Integer 2.
C29_Witness ==
    /\ result.op = "validate"
    /\ result.contract = ValueContract(IsType("Number"), <<Not(MinimumLength(3))>>)
    /\ result.value = Integer(2)
    /\ result.out.ok

-----------------------------------------------------------------------------
(* Claims on coercion, construction and parsing (SpecValue)                *)

\* C15: coercion to the value's own type is the identity for every one of
\* the six value types: convert(x, type_of(x)) is Ok(x).
C15_OwnTypeIsIdentity ==
    (result.op = "convert" /\ result.to = get_value_type(result.value)) =>
        result.out = OkValue(result.value)

\* C15 as amended: convert(x, type_of(x)) is Ok(x) for a Number, Text,
\* DateTime, Boolean or Composite x, and CoercionImpossible{from: Missing,
\* to: Missing} for a Missing x.
C15_OwnTypeIsIdentityButMissing ==
    (result.op = "convert" /\ result.to = get_value_type(result.value)) =>
        IF result.to = "Missing"
        THEN result.out = Err(CoercionImpossible("Missing", "Missing"))
        ELSE result.out = OkValue(result.value)

\* A Composite has been converted to Composite.
C15_Witness ==
    /\ result.op = "convert"
    /\ result.value.type = "Composite"
    /\ result.to = "Composite"
    /\ result.out.status = "Ok"

\* C16: convert(Number n, Boolean) is Ok(Boolean(false)) for Integer(0),
\* Ok(Boolean(true)) for Integer(1) and a DomainError for every other
\* Number: every other Integer, every Real, every Complex.
C16_NumberToBooleanDomain ==
    (result.op = "convert" /\ result.value.type = "Number"
        /\ result.to = "Boolean") =>
        IF result.value = Integer(0) THEN result.out = OkValue(Boolean(FALSE))
        ELSE IF result.value = Integer(1) THEN result.out = OkValue(Boolean(TRUE))
        ELSE /\ result.out.status = "Err"
             /\ result.out.err.kind = "DomainError"

\* The pairs that the coercion matrix marks as impossible.
Impossible(from, to) ==
    \/ from = "Missing"
    \/ to = "Missing"
    \/ from = "Composite" /\ to # "Composite"
    \/ to = "Composite" /\ from # "Composite"
    \/ from = "DateTime" /\ to \in {"Number", "Boolean"}
    \/ from \in {"Number", "Boolean"} /\ to = "DateTime"

\* C17: convert answers every pair of the 6x6 matrix, and every pair that
\* the matrix marks as impossible with CoercionImpossible{from, to}, from the
\* type of the value and to the type asked for.
C17_ImpossiblePairsAreReported ==
    result.op = "convert" =>
        /\ result.out.status \in {"Ok", "Err"}
        /\ Impossible(get_value_type(result.value), result.to) =>
              result.out = Err(CoercionImpossible(get_value_type(result.value),
                                                  result.to))

\* A Number has been refused as Missing and a Boolean as DateTime.
C17_Witness ==
    /\ result.op = "convert"
    /\ \/ result.value.type = "Number" /\ result.to = "Missing"
       \/ result.value.type = "Boolean" /\ result.to = "DateTime"
    /\ result.out.status = "Err"

\* C18: coercion to Text by formatting always succeeds: for every Number
\* (Integer, Real, Complex), Boolean and DateTime, convert(v, Text) is Ok
\* with a Text.
C18_FormattingAlwaysSucceeds ==
    (result.op = "convert" /\ result.to = "Text"
        /\ result.value.type \in {"Number", "Boolean", "DateTime"}) =>
        /\ result.out.status = "Ok"
        /\ result.out.value.type = "Text"

\* C19: both conversions of host text into a Value, from a String and from
\* a &str, give Missing(Unexpected) for the empty text and Text(s) for every
\* other text s; none gives Text("").
C19_EmptyTextIsMissing ==
    result.op \in {"from_string", "from_str"} =>
        /\ result.out = IF result.text = <<>> THEN Missing("Unexpected")
                        ELSE Text(result.text)
        /\ result.out # Text(<<>>)

\* C20: Parser::parse tries the date/time interpretation of the whole text
\* first: a text that the ISO-8601 collaborator accepts as a full date-time,
\* a date or a time parses to Ok(DateTime) of that shape, a valid literal or
\* not.
C20_DateTimeIsTriedFirst ==
    (result.op = "parse" /\ iso8601_to_dk_value(result.text).ok) =>
        /\ result.out.status = "Ok"
        /\ result.out.value.type = "DateTime"
        /\ result.out.value.sub =
              (IF IsoDateTime(result.text).ok THEN "Full"
               ELSE IF IsoDate(result.text).ok THEN "Date"
               ELSE "Time")

\* The value v is the image of the literal tree: kind by kind, and element
\* by element in the tree's order for an array and an object.
RECURSIVE IsImage(_, _)
IsImage(tree, v) ==
    CASE tree.js = "Null" -> v.type = "Missing" /\ v.sub = "Expected"
      [] tree.js = "Bool" ->
            /\ v.type = "Boolean"
            /\ v.pay = <<IF tree.b THEN 1 ELSE 0>>
      [] tree.js = "Number" /\ tree.repr = "i64" ->
            v.type = "Number" /\ v.sub = "Integer" /\ v.pay = <<tree.n>>
      [] tree.js = "Number" /\ tree.repr = "f64" ->
            v.type = "Number" /\ v.sub = "Real" /\ v.pay = <<tree.n>>
      [] tree.js = "Number" /\ tree.repr \notin {"i64", "f64"} ->
            v.type = "Missing" /\ v.sub = "Unexpected"
      [] tree.js = "String" ->
            IF \/ IsoDateTime(tree.s).ok
               \/ IsoDate(tree.s).ok
               \/ IsoTime(tree.s).ok
            THEN /\ v.type = "DateTime"
                 /\ v.sub = (IF IsoDateTime(tree.s).ok THEN "Full"
                             ELSE IF IsoDate(tree.s).ok THEN "Date"
                             ELSE "Time")
            ELSE v.type = "Text" /\ v.pay = tree.s
      [] tree.js = "Array" ->
            /\ v.type = "Composite" /\ v.sub = "Array"
            /\ Len(v.pay) = Len(tree.items)
            /\ \A i \in 1..Len(tree.items) : IsImage(tree.items[i], v.pay[i])
      [] tree.js = "Object" ->
            /\ v.type = "Composite" /\ v.sub = "Object"
            /\ Len(v.pay) = Len(tree.items)
            /\ \A i \in 1..Len(tree.items) :
                  /\ v.pay[i][1] = tree.items[i][1]
                  /\ IsImage(tree.items[i][2], v.pay[i][2])

\* C21: for every text the generic literal grammar accepts, Parser::parse
\* returns Ok with the kind-by-kind image of the literal tree (null is
\* Missing(Expected), a boolean a Boolean, an i64 number an Integer, an f64
\* number a Real, any other number Missing(Unexpected), a string a DateTime
\* when it is a date or a time and a Text otherwise, an array and an object
\* a Composite of the images of their elements in order); for every text
\* that neither the grammar nor the date/time reader accepts, it returns
\* CannotParseValue carrying the text unchanged.
C21_ParseIsTheImageOfTheLiteral ==
    result.op = "parse" =>
        /\ SerdeJson(result.text).ok =>
              /\ result.out.status = "Ok"
              /\ IsImage(SerdeJson(result.text).v, result.out.value)
        /\ (~SerdeJson(result.text).ok /\ ~iso8601_to_dk_value(result.text).ok) =>
              result.out = Err(CannotParseValue(result.text))

\* The text ["2020-01-02",null] was parsed to an array of a date and an
\* expected missing value.
C21_Witness ==
    /\ result.op = "parse"
    /\ result.text = <<91, 34, 50, 48, 50, 48, 45, 48, 49, 45, 48, 50, 34, 44, 110, 117, 108, 108, 93>>
    /\ result.out.status = "Ok"
    /\ result.out.value.sub = "Array"
    /\ Len(result.out.value.pay) = 2
    /\ result.out.value.pay[1].type = "DateTime"
    /\ result.out.value.pay[2] = Missing("Expected")

====
